---- MODULE Spec2Model ----
(* Pipedrive MCP server: scalar conversion helpers, the feature-gating    *)
(* decorator, the tool handlers' conversion -> precondition -> model ->    *)
(* remote call -> envelope pipeline, and the HTTP client's request step.   *)
(* Python strings are sequences of one-character strings; Python values   *)
(* are tagged records so that None, integers and strings can be compared.  *)
EXTENDS Integers, Sequences, FiniteSets, TLC

(*************************** bounds *************************************)
\* longest input string enumerated for the conversion helpers
MaxLen == 3
\* most arguments of one tool call that differ from the tool's baseline call
\* (required arguments valid, optional arguments at their default)
MaxChanged == 2

(*************************** Python values ******************************)
None == [t |-> "none"]
I(n) == [t |-> "int", v |-> n]
S(s) == [t |-> "str", v |-> s]
IsNone(x) == x.t = "none"
Bool(b) == [t |-> "bool", v |-> b]
\* Python truthiness of an Optional[str] / Optional[int] / bool-like value
Truthy(x) ==
    CASE x.t = "none" -> FALSE
      [] x.t = "str" -> x.v # <<>>
      [] x.t = "int" -> x.v # 0
      [] x.t = "obj" -> x.v # "empty"
      [] x.t = "bool" -> x.v
      [] OTHER -> TRUE

(*************************** characters *********************************)
Digits == {"0", "1", "2", "3", "4", "5", "6", "7", "8", "9"}
\* a decimal digit outside ASCII (ARABIC-INDIC DIGIT THREE), written as one character
ArabicThree == "U+0663"
\* the characters `\d` matches in a str pattern, and the digits int() reads
DecimalDigits == Digits \cup {ArabicThree}
DigitVal(c) ==
    CASE c = "0" -> 0 [] c = "1" -> 1 [] c = "2" -> 2 [] c = "3" -> 3
      [] c = "4" -> 4 [] c = "5" -> 5 [] c = "6" -> 6 [] c = "7" -> 7
      [] c = "8" -> 8 [] c = "9" -> 9 [] c = ArabicThree -> 3
Whitespace == {" ", "\n"}

RECURSIVE LStrip(_)
LStrip(s) == IF s # <<>> /\ Head(s) \in Whitespace THEN LStrip(Tail(s)) ELSE s
RECURSIVE RStrip(_)
RStrip(s) ==
    IF s # <<>> /\ s[Len(s)] \in Whitespace THEN RStrip(SubSeq(s, 1, Len(s) - 1)) ELSE s
\* str.strip()
Strip(s) == RStrip(LStrip(s))

\* value of a run of digits and underscores, read left to right
RECURSIVE DigitsValue(_, _)
DigitsValue(s, acc) ==
    IF s = <<>> THEN acc
    ELSE IF Head(s) = "_" THEN DigitsValue(Tail(s), acc)
    ELSE DigitsValue(Tail(s), 10 * acc + DigitVal(Head(s)))

\* the digit part int() accepts: digits, single underscores only between digits
IntBodyOk(b) ==
    /\ b # <<>>
    /\ b[1] \in DecimalDigits
    /\ b[Len(b)] \in DecimalDigits
    /\ \A i \in 1..Len(b) : b[i] \in DecimalDigits \cup {"_"}
    /\ \A i \in 1..(Len(b) - 1) : ~(b[i] = "_" /\ b[i + 1] = "_")

\* Python int(str): surrounding whitespace stripped, optional sign, base 10;
\* ok = FALSE stands for ValueError
PyInt(s) ==
    LET t == Strip(s)
        signed == t # <<>> /\ t[1] \in {"+", "-"}
        body == IF signed THEN Tail(t) ELSE t
    IN IF IntBodyOk(body)
       THEN [ok |-> TRUE,
             v |-> IF signed /\ t[1] = "-" THEN 0 - DigitsValue(body, 0)
                   ELSE DigitsValue(body, 0)]
       ELSE [ok |-> FALSE, v |-> 0]

(*************************** conversion helpers *************************)
\* an error message is the sequence of the pieces the f-string joins
Msg(pieces) == S(pieces)
Contains(msg, piece) == msg.t = "str" /\ \E i \in 1..Len(msg.v) : msg.v[i] = piece

\* `id_str is None or not id_str.strip()`
BlankOrNone(x) == IsNone(x) \/ Strip(x.v) = <<>>

convert_id_string_zero_ok(id_str, field_name, example) ==
    IF BlankOrNone(id_str) THEN <<None, None>>
    ELSE LET r == PyInt(id_str.v)
         IN IF ~r.ok
            THEN <<None, Msg(<<field_name, " must be a numeric string. Example: '", example, "'">>)>>
            ELSE IF r.v < 0
            THEN <<None, Msg(<<field_name, " must be a positive integer. Example: '", example, "'">>)>>
            ELSE <<I(r.v), None>>

convert_id_string(id_str, field_name, example) ==
    IF BlankOrNone(id_str) THEN <<None, None>>
    ELSE LET r == PyInt(id_str.v)
         IN IF ~r.ok
            THEN <<None, Msg(<<field_name, " must be a numeric string. Example: '", example, "'">>)>>
            ELSE IF r.v <= 0
            THEN <<None, Msg(<<field_name, " must be a positive integer. Example: '", example, "'">>)>>
            ELSE <<I(r.v), None>>


(*************************** response envelope **************************)
\* json.dumps({"success": .., "data": .., "error": ..})
format_tool_response_no_error(success, data, error_message) ==
    [kind |-> "json", obj |-> [success |-> success, data |-> data, error |-> None]]

format_tool_response(success, data, error_message) ==
    [kind |-> "json", obj |-> [success |-> success, data |-> data, error |-> error_message]]

\* a tool that raised instead of returning
Raised(exc) == [kind |-> "raise", obj |-> exc]
\* a tool that returned a plain (non-JSON) string
Text(pieces) == [kind |-> "text", obj |-> pieces]
NoResult == [kind |-> "none", obj |-> <<>>]

\* remote records and exceptions
Obj(tag) == [t |-> "obj", v |-> tag]
Exc(name) == [t |-> "exc", v |-> name]
IsExc(x) == x.t = "exc"

(*************************** feature registry ***************************)
Features == {"activities", "persons"}

\* registry.is_feature_enabled(feature_id)
is_feature_enabled(enabledSet, feature_id) == feature_id \in enabledSet

\* the tools registered through @tool(feature_id); every other tool is
\* registered with @mcp.tool() and is not gated
FeatureOf(toolName) ==
    CASE toolName = "create_activity_in_pipedrive" -> "activities"
      [] toolName = "create_activity_type_in_pipedrive" -> "activities"
      [] toolName = "update_activity_in_pipedrive" -> "activities"
      [] OTHER -> "none"

Gated(toolName) == FeatureOf(toolName) # "none"

RefusalMessage(feature_id) ==
    <<"This tool is not available because the '", feature_id,
      "' feature is disabled. Please contact your administrator.">>

\* wrapper() of the decorator: TRUE when the wrapped body is awaited
wrapper_always_runs(enabledSet, toolName) == TRUE

wrapper_runs_body(enabledSet, toolName) ==
    ~Gated(toolName) \/ is_feature_enabled(enabledSet, FeatureOf(toolName))

(*************************** handler steps ******************************)
\* One conversion / check of a handler, in code order.  err is None when it
\* passes, a message when the handler returns a failure envelope there, and
\* an Exc when an exception is raised outside every try block.
Step(field, err, kind) == [f |-> field, err |-> err, kind |-> kind]
Conv(field, pair) == Step(field, pair[2], "conversion")
When(cond, steps) == IF cond THEN steps ELSE <<>>

SetMin(X) == CHOOSE x \in X : \A y \in X : x <= y
FailingSteps(steps) == {i \in 1..Len(steps) : ~IsNone(steps[i].err)}

\* the handler returns at the first failing step
FirstFailure(steps) == SetMin(FailingSteps(steps))

ConvFieldsOf(steps) ==
    LET RECURSIVE Pick(_)
        Pick(i) == IF i > Len(steps) THEN <<>>
                   ELSE (IF steps[i].kind = "conversion" THEN <<steps[i].f>> ELSE <<>>) \o Pick(i + 1)
    IN Pick(1)

\* outcome of the local (pre-await) part of a handler
LocalReturn(conv, resp, path) ==
    [act |-> "return", conv |-> conv, built |-> FALSE, resp |-> resp, path |-> path,
     method |-> "none", payload |-> <<>>]
LocalRaise(conv, exc) ==
    [act |-> "raise", conv |-> conv, built |-> FALSE, resp |-> Raised(exc), path |-> "escaped",
     method |-> "none", payload |-> <<>>]
LocalCall(conv, built, method, payload) ==
    [act |-> "call", conv |-> conv, built |-> built, resp |-> NoResult, path |-> "none",
     method |-> method, payload |-> payload]
LocalInvalid(conv, msg) ==
    [act |-> "return", conv |-> conv, built |-> FALSE,
     resp |-> format_tool_response(FALSE, None, msg), path |-> "validation",
     method |-> "none", payload |-> <<>>]

\* run the steps; when all pass continue with `next`
RunSteps(steps, next) ==
    IF FailingSteps(steps) = {} THEN next
    ELSE LET i == FirstFailure(steps)
             done == SubSeq(steps, 1, i)
         IN IF IsExc(steps[i].err)
            THEN LocalRaise(ConvFieldsOf(done), steps[i].err)
            ELSE LocalReturn(ConvFieldsOf(done),
                             format_tool_response(FALSE, None, steps[i].err),
                             steps[i].kind)

(*************************** UUID / date / time helpers ******************)
Rep(c, n) == [i \in 1..n |-> c]
HexLower == Digits \cup {"a", "b", "c", "d", "e", "f"}

UpperAlphabet ==
    <<"A", "B", "C", "D", "E", "F", "G", "H", "I", "J", "K", "L", "M",
      "N", "O", "P", "Q", "R", "S", "T", "U", "V", "W", "X", "Y", "Z">>
LowerAlphabet ==
    <<"a", "b", "c", "d", "e", "f", "g", "h", "i", "j", "k", "l", "m",
      "n", "o", "p", "q", "r", "s", "t", "u", "v", "w", "x", "y", "z">>
LowerChar(c) ==
    IF \E i \in 1..26 : UpperAlphabet[i] = c
    THEN LowerAlphabet[CHOOSE i \in 1..26 : UpperAlphabet[i] = c] ELSE c
UpperChar(c) ==
    IF \E i \in 1..26 : LowerAlphabet[i] = c
    THEN UpperAlphabet[CHOOSE i \in 1..26 : LowerAlphabet[i] = c] ELSE c
\* str.lower(), str.upper()
Lower(s) == [i \in 1..Len(s) |-> LowerChar(s[i])]
Upper(s) == [i \in 1..Len(s) |-> UpperChar(s[i])]
\* str.isalpha() over the characters used here
IsAlpha(s) ==
    s # <<>> /\ \A i \in 1..Len(s) : \E k \in 1..26 : s[i] \in {UpperAlphabet[k], LowerAlphabet[k]}

\* `$` of re.match: the end of the string, or just before a final newline
DollarAt(s, n) == Len(s) = n \/ (Len(s) = n + 1 /\ s[n + 1] = "\n")

\* ^[0-9a-f]{8}-[0-9a-f]{4}-[0-9a-f]{4}-[0-9a-f]{4}-[0-9a-f]{12}$
MatchesUuidPattern(s) ==
    /\ DollarAt(s, 36)
    /\ \A i \in 1..36 : IF i \in {9, 14, 19, 24} THEN s[i] = "-" ELSE s[i] \in HexLower

\* uuid.UUID(hex): braces and hyphens removed, then exactly 32 hex digits;
\* ok = FALSE stands for ValueError, v is str(uuid_obj)
RemoveChar(s, c) == SelectSeq(s, LAMBDA x : x # c)
UUID(s) ==
    LET hex == RemoveChar(RemoveChar(RemoveChar(s, "{"), "}"), "-")
        low == Lower(hex)
    IN IF Len(hex) = 32 /\ \A i \in 1..32 : low[i] \in HexLower
       THEN [ok |-> TRUE,
             v |-> SubSeq(low, 1, 8) \o <<"-">> \o SubSeq(low, 9, 12) \o <<"-">>
                   \o SubSeq(low, 13, 16) \o <<"-">> \o SubSeq(low, 17, 20) \o <<"-">>
                   \o SubSeq(low, 21, 32)]
       ELSE [ok |-> FALSE, v |-> <<>>]

UuidExample == <<"123e4567-e89b-12d3-a456-426614174000">>

validate_uuid_string_as_given(uuid_str, field_name, example) ==
    IF BlankOrNone(uuid_str) THEN <<None, None>>
    ELSE IF ~MatchesUuidPattern(Lower(uuid_str.v))
    THEN <<None, Msg(<<field_name, " must be a valid UUID string. Example: '", example, "'">>)>>
    ELSE IF ~UUID(uuid_str.v).ok
    THEN <<None, Msg(<<field_name, " must be a valid UUID string. Example: '", example, "'">>)>>
    ELSE <<uuid_str, None>>

validate_uuid_string(uuid_str, field_name, example) ==
    IF BlankOrNone(uuid_str) THEN <<None, None>>
    ELSE IF ~MatchesUuidPattern(Lower(uuid_str.v))
    THEN <<None, Msg(<<field_name, " must be a valid UUID string. Example: '", example, "'">>)>>
    \* except ValueError around uuid.UUID(uuid_str)
    ELSE IF ~UUID(uuid_str.v).ok
    THEN <<None, Msg(<<field_name, " must be a valid UUID string. Example: '", example, "'">>)>>
    ELSE <<S(UUID(uuid_str.v).v), None>>

\* ^[0-9]{4}-[0-9]{2}-[0-9]{2}$
MatchesDatePattern(s) ==
    /\ DollarAt(s, 10)
    /\ \A i \in 1..10 : IF i \in {5, 8} THEN s[i] = "-" ELSE s[i] \in Digits

validate_date_string(date_str, field_name, expected_format, example) ==
    IF BlankOrNone(date_str) THEN <<None, None>>
    ELSE IF ~MatchesDatePattern(date_str.v)
    THEN <<None, Msg(<<field_name, " must be in ", expected_format, " format. Example: '", example, "'">>)>>
    ELSE <<date_str, None>>

\* ^[0-9]{2}:[0-9]{2}:[0-9]{2}$
MatchesTimePattern(s) ==
    /\ DollarAt(s, 8)
    /\ \A i \in 1..8 : IF i \in {3, 6} THEN s[i] = ":" ELSE s[i] \in Digits

TwoDigits(s, i) == 10 * DigitVal(s[i]) + DigitVal(s[i + 1])

validate_time_string_keeps_value(time_str, field_name, expected_format, example) ==
    IF BlankOrNone(time_str) THEN <<None, None>>
    ELSE IF ~MatchesTimePattern(time_str.v)
    THEN <<None, Msg(<<field_name, " must be in ", expected_format, " format. Example: '", example, "'">>)>>
    ELSE IF ~(TwoDigits(time_str.v, 1) <= 23 /\ TwoDigits(time_str.v, 4) <= 59
              /\ TwoDigits(time_str.v, 7) <= 59)
    THEN <<time_str, Msg(<<field_name, " contains invalid values. Hours (0-23), minutes (0-59), seconds (0-59). Example: '", example, "'">>)>>
    ELSE <<time_str, None>>

validate_time_string(time_str, field_name, expected_format, example) ==
    IF BlankOrNone(time_str) THEN <<None, None>>
    ELSE IF ~MatchesTimePattern(time_str.v)
    THEN <<None, Msg(<<field_name, " must be in ", expected_format, " format. Example: '", example, "'">>)>>
    ELSE IF ~(TwoDigits(time_str.v, 1) <= 23 /\ TwoDigits(time_str.v, 4) <= 59
              /\ TwoDigits(time_str.v, 7) <= 59)
    THEN <<None, Msg(<<field_name, " contains invalid values. Hours (0-23), minutes (0-59), seconds (0-59). Example: '", example, "'">>)>>
    ELSE <<time_str, None>>

\* datetime.date.fromisoformat on a YYYY-MM-DD string: calendar check
IsLeap(y) == (y % 4 = 0 /\ y % 100 # 0) \/ y % 400 = 0
DaysInMonth(y, m) ==
    IF m \in {4, 6, 9, 11} THEN 30
    ELSE IF m = 2 THEN (IF IsLeap(y) THEN 29 ELSE 28)
    ELSE 31
IsIsoDate(s) ==
    /\ MatchesDatePattern(s)
    /\ LET y == 100 * TwoDigits(s, 1) + TwoDigits(s, 3)
           m == TwoDigits(s, 6)
           d == TwoDigits(s, 9)
       IN y >= 1 /\ m \in 1..12 /\ d >= 1 /\ d <= DaysInMonth(y, m)

(*************************** Activity model *****************************)
Digits05 == {"0", "1", "2", "3", "4", "5"}
\* ([01]\d|2[0-3]) at position i
HourAt(s, i) ==
    \/ s[i] \in {"0", "1"} /\ s[i + 1] \in DecimalDigits
    \/ s[i] = "2" /\ s[i + 1] \in {"0", "1", "2", "3"}
\* ([0-5]\d) at position i
SixtyAt(s, i) == s[i] \in Digits05 /\ s[i + 1] \in DecimalDigits

\* ^([01]\d|2[0-3]):([0-5]\d):([0-5]\d)$
MatchesHMS(s) ==
    Len(s) = 8 /\ HourAt(s, 1) /\ s[3] = ":" /\ SixtyAt(s, 4) /\ s[6] = ":" /\ SixtyAt(s, 7)
\* ^(\d):([0-5]\d)(?::([0-5]\d))?$
MatchesSingleDigitHour(s) ==
    \/ Len(s) = 4 /\ s[1] \in DecimalDigits /\ s[2] = ":" /\ SixtyAt(s, 3)
    \/ Len(s) = 7 /\ s[1] \in DecimalDigits /\ s[2] = ":" /\ SixtyAt(s, 3) /\ s[5] = ":" /\ SixtyAt(s, 6)
\* ^([01]\d|2[0-3]):([0-5]\d)$
MatchesHM(s) == Len(s) = 5 /\ HourAt(s, 1) /\ s[3] = ":" /\ SixtyAt(s, 4)

CountChar(s, c) == Cardinality({i \in 1..Len(s) : s[i] = c})

\* a field validator's outcome: the normalised value, or the ValueError it raises
Ok(v) == [ok |-> TRUE, v |-> v, err |-> None]
Fail(msg) == [ok |-> FALSE, v |-> None, err |-> msg]

validate_subject(v) ==
    IF ~Truthy(v) \/ Strip(v.v) = <<>> THEN Fail(Msg(<<"Activity subject cannot be empty">>))
    ELSE Ok(S(Strip(v.v)))

validate_type(v) ==
    IF ~Truthy(v) \/ Strip(v.v) = <<>> THEN Fail(Msg(<<"Activity type cannot be empty">>))
    ELSE Ok(S(Strip(v.v)))

validate_due_date(v) ==
    IF BlankOrNone(v) THEN Ok(None)
    ELSE IF IsIsoDate(Strip(v.v)) THEN Ok(S(Strip(v.v)))
    ELSE Fail(Msg(<<"Invalid due_date format: ", Strip(v.v), ". Must be in ISO format (YYYY-MM-DD)">>))

validate_time_format(v, field_name) ==
    IF BlankOrNone(v) THEN Ok(None)
    ELSE LET s == Strip(v.v)
             bad == Fail(Msg(<<"Invalid ", field_name, " format: ", s, ". Must be in HH:MM:SS format">>))
         IN IF MatchesHMS(s) THEN Ok(S(s))
            ELSE IF field_name = "duration" /\ MatchesSingleDigitHour(s)
            THEN (IF CountChar(s, ":") = 1 THEN Ok(S(<<"0">> \o s \o <<":", "0", "0">>))
                  ELSE IF CountChar(s, ":") = 2 THEN Ok(S(<<"0">> \o s))
                  ELSE bad)
            ELSE IF field_name = "duration" /\ MatchesHM(s)
            THEN Ok(S(s \o <<":", "0", "0">>))
            ELSE bad

validate_positive_id(v) ==
    IF ~IsNone(v) /\ v.v <= 0 THEN Fail(Msg(<<"ID fields must be positive integers if provided">>))
    ELSE Ok(v)

validate_lead_id(v) ==
    IF BlankOrNone(v) THEN Ok(None)
    ELSE IF ~MatchesUuidPattern(Lower(Strip(v.v)))
    THEN Fail(Msg(<<"Invalid lead_id format: ", Strip(v.v), ". Must be a valid UUID string.">>))
    ELSE Ok(S(Strip(v.v)))

validate_priority(v) ==
    IF ~IsNone(v) /\ (v.v < 0 \/ v.v > 999)
    THEN Fail(Msg(<<"Priority must be between 0 and 999 if provided">>))
    ELSE Ok(v)

\* the fields of Activity in declaration order
ActivityFields ==
    <<"subject", "type", "due_date", "due_time", "duration", "owner_id", "deal_id",
      "lead_id", "person_id", "org_id", "project_id", "busy", "done", "note",
      "location", "public_description", "priority", "id">>

ActivityFieldValidator(f, v) ==
    CASE f = "subject" -> validate_subject(v)
      [] f = "type" -> validate_type(v)
      [] f = "due_date" -> validate_due_date(v)
      [] f \in {"due_time", "duration"} -> validate_time_format(v, f)
      [] f \in {"owner_id", "deal_id", "person_id", "org_id", "project_id", "id"} ->
            validate_positive_id(v)
      [] f = "lead_id" -> validate_lead_id(v)
      [] f = "priority" -> validate_priority(v)
      [] OTHER -> Ok(v)

Range(s) == {s[i] : i \in 1..Len(s)}
\* keyword arguments: fields not passed take the default None
WithDefaults(fieldSeq, kw) ==
    [f \in Range(fieldSeq) |-> IF f \in DOMAIN kw THEN kw[f] ELSE None]

\* Activity(...): every field validator runs; a ValidationError lists the
\* failing fields in declaration order
Activity(kw) ==
    LET raw == WithDefaults(ActivityFields, kw)
        res == [f \in Range(ActivityFields) |-> ActivityFieldValidator(f, raw[f])]
        failing == {i \in 1..Len(ActivityFields) : ~res[ActivityFields[i]].ok}
    IN [ok |-> failing = {},
        obj |-> [f \in Range(ActivityFields) |-> res[f].v],
        errors |-> failing,
        fields |-> SelectSeq(ActivityFields, LAMBDA f : ~res[f].ok)]

\* {k: v for k, v in model_dump().items() if v is not None and k != "id"}
Activity_to_api_dict(obj) ==
    LET keys == {k \in DOMAIN obj : ~IsNone(obj[k]) /\ k # "id"}
    IN [k \in keys |-> obj[k]]

(*************************** input strings ******************************)
Empty == S(<<>>)
Blank == S(<<" ">>)
Five == S(<<"5">>)
Seven == S(<<"7">>)
Zero == S(<<"0">>)
MinusOne == S(<<"-", "1">>)
Letters == S(<<"a", "b">>)
UuidUpper ==
    S(Rep("A", 8) \o <<"-">> \o Rep("1", 4) \o <<"-">> \o Rep("2", 4) \o <<"-">>
      \o Rep("b", 4) \o <<"-">> \o Rep("0", 12))
UuidBad == S(Rep("g", 8) \o <<"-">> \o Rep("1", 4))
Date20250115 == S(<<"2", "0", "2", "5", "-", "0", "1", "-", "1", "5">>)
Date20250230 == S(<<"2", "0", "2", "5", "-", "0", "2", "-", "3", "0">>)
DateSlashes == S(<<"1", "5", "/", "0", "1", "/", "2", "5">>)
IsoDateTime ==
    S(<<"2", "0", "2", "5", "-", "0", "1", "-", "1", "5", "T",
        "1", "4", ":", "3", "0", ":", "0", "0", "Z">>)
Seconds3600 == S(<<"3", "6", "0", "0">>)
Hundred == S(<<"1", "0", "0">>)
NameC == S(<<"C", "a", "l", "l">>)
TypeCall == S(<<"c", "a", "l", "l">>)

(*************************** shared handler pieces ***********************)
\* sanitize_inputs, applied to one argument: a blank string becomes None
sanitize_inputs(v) == IF v = Empty THEN None ELSE v

\* `None if x == "" else x`
sanitize(v) == IF v = Empty THEN None ELSE v

\* safe_split_to_list for a string without commas
safe_split_to_list(v) ==
    IF ~Truthy(v) \/ Strip(v.v) = <<>> THEN None ELSE [t |-> "list", v |-> <<Strip(v.v)>>]

\* `x.strip() if x else x`
StripIfTruthy(v) == IF Truthy(v) THEN S(Strip(v.v)) ELSE v

\* int(text) guarded by try/except ValueError
IntOf(v) == PyInt(v.v)

\* str(PipedriveAPIError)
IntStr(n) == CASE n = 200 -> "200" [] n = 404 -> "404" [] OTHER -> "500"
ApiErrorStr(e) ==
    <<"PipedriveAPIError: ", e.message>>
    \o When(~IsNone(e.status_code), <<"Status: ", IntStr(e.status_code.v)>>)
    \o When(Truthy(e.response_data), <<"Response Data Keys: ", "keys">>)

\* outcomes of the awaited client method, as the handler sees them
Returned(v) == [k |-> "ok", v |-> v]
ApiError(message, status_code, response_data) ==
    [k |-> "api_error", message |-> message, status_code |-> status_code,
     response_data |-> response_data]
OtherError(name) == [k |-> "error", name |-> name]

Final(resp, path) == [resp |-> resp, path |-> path]

\* the three except clauses most handlers end with; `withData` is TRUE for
\* the handlers that pass data=e.response_data, prefix is the text put in
\* front of str(e)
OnApiError(out, prefix, withData) ==
    Final(format_tool_response(FALSE, IF withData THEN out.response_data ELSE None,
                               Msg(prefix \o ApiErrorStr(out))), "api")
OnUnexpected(out, prefix) ==
    Final(format_tool_response(FALSE, None, Msg(prefix \o <<out.name>>)), "unexpected")

(*************************** create_activity_in_pipedrive ***************)
create_activity_steps(a) ==
    LET subject == StripIfTruthy(sanitize_inputs(a.subject))
        type == StripIfTruthy(sanitize_inputs(a.type))
        due_time == sanitize_inputs(a.due_time)
        duration == sanitize_inputs(a.duration)
    IN <<Step("subject",
              IF ~Truthy(subject)
              THEN Msg(<<"The 'subject' field is required and cannot be empty.">>) ELSE None,
              "precondition"),
         Step("type",
              IF ~Truthy(type)
              THEN Msg(<<"The 'type' field is required and cannot be empty.">>) ELSE None,
              "precondition"),
         Conv("owner_id", convert_id_string(sanitize_inputs(a.owner_id), "owner_id", "123")),
         Conv("deal_id", convert_id_string(sanitize_inputs(a.deal_id), "deal_id", "123")),
         Conv("person_id", convert_id_string(sanitize_inputs(a.person_id), "person_id", "123")),
         Conv("org_id", convert_id_string(sanitize_inputs(a.org_id), "org_id", "123")),
         Conv("lead_id", validate_uuid_string(sanitize_inputs(a.lead_id), "lead_id", UuidExample[1])),
         Conv("due_date", validate_date_string(sanitize_inputs(a.due_date), "due_date",
                                               "YYYY-MM-DD", "2025-01-15"))>>
       \* `re` is never imported by the module: re.match raises NameError
       \o When(Truthy(due_time), <<Step("due_time", Exc("NameError"), "conversion")>>)
       \o When(Truthy(duration),
               <<Step("duration",
                      IF ~IntOf(duration).ok
                      THEN Msg(<<"duration must be a numeric string representing seconds. Example: '3600' for 1 hour">>)
                      ELSE IF IntOf(duration).v < 0
                      THEN Msg(<<"duration must be a positive integer representing seconds. Example: '3600' for 1 hour">>)
                      ELSE None,
                      "conversion")>>)
       \o When(Truthy(a.priority),
               <<Step("priority",
                      IF ~IntOf(a.priority).ok
                      THEN Msg(<<"Priority must be a numeric string. Example: '1'">>)
                      ELSE IF IntOf(a.priority).v < 0
                      THEN Msg(<<"Priority must be a positive integer. Example: '1'">>)
                      ELSE None,
                      "conversion")>>)

\* the keyword parameters of create_activity_in_pipedrive that carry data here
create_activity_parameters ==
    {"subject", "type", "owner_id", "deal_id", "lead_id", "person_id", "org_id", "due_date",
     "due_time", "duration", "priority"}

\* the body after its arguments were bound
create_activity_body(a) ==
    LET steps == create_activity_steps(a)
        model == Activity([subject |-> StripIfTruthy(sanitize_inputs(a.subject)),
                           type |-> StripIfTruthy(sanitize_inputs(a.type)),
                           owner_id |-> convert_id_string(sanitize_inputs(a.owner_id), "owner_id", "123")[1],
                           deal_id |-> convert_id_string(sanitize_inputs(a.deal_id), "deal_id", "123")[1],
                           lead_id |-> validate_uuid_string(sanitize_inputs(a.lead_id), "lead_id", UuidExample[1])[1],
                           person_id |-> convert_id_string(sanitize_inputs(a.person_id), "person_id", "123")[1],
                           org_id |-> convert_id_string(sanitize_inputs(a.org_id), "org_id", "123")[1],
                           due_date |-> validate_date_string(sanitize_inputs(a.due_date), "due_date",
                                                             "YYYY-MM-DD", "2025-01-15")[1],
                           due_time |-> sanitize_inputs(a.due_time),
                           duration |-> sanitize_inputs(a.duration),
                           priority |-> IF Truthy(a.priority) THEN I(IntOf(a.priority).v) ELSE None])
    IN RunSteps(steps,
                IF ~model.ok
                THEN LocalInvalid(ConvFieldsOf(steps),
                                  Msg(<<"Validation error: ", "validation errors for Activity">>))
                ELSE LocalCall(ConvFieldsOf(steps), TRUE, "create_activity",
                               Activity_to_api_dict(model.obj)))

\* the call func(*args, **kwargs): a keyword that is not a parameter raises
\* TypeError before the body starts
create_activity_local(a) ==
    IF DOMAIN a \subseteq create_activity_parameters THEN create_activity_body(a)
    ELSE LocalRaise(<<>>, Exc("TypeError"))

create_activity_resume(a, out) ==
    CASE out.k = "ok" ->
           \* created_activity.get('id') is evaluated for the log line
           IF IsNone(out.v)
           THEN OnUnexpected(OtherError("AttributeError"), <<"An unexpected error occurred: ">>)
           ELSE Final(format_tool_response(TRUE, out.v, None), "success")
      [] out.k = "api_error" -> OnApiError(out, <<"Pipedrive API error: ">>, FALSE)
      [] OTHER -> OnUnexpected(out, <<"An unexpected error occurred: ">>)

\* the calls that differ from the baseline call in at most k arguments, each
\* changed argument taking one of the values listed for it
RECURSIVE Variations(_, _, _)
Variations(baseline, choices, k) ==
    IF k = 0 THEN {baseline}
    ELSE LET prev == Variations(baseline, choices, k - 1)
         IN prev \cup UNION {UNION {{[b EXCEPT ![f] = v] : v \in choices[f]} :
                                    f \in DOMAIN choices} : b \in prev}
Calls(baseline, choices) == Variations(baseline, choices, MaxChanged)

SubjectWithClient ==
    S(<<"C", "a", "l", "l", " ", "w", "i", "t", "h", " ", "c", "l", "i", "e", "n", "t">>)
OneTwoThree == S(<<"1", "2", "3">>)
\* create_activity_in_pipedrive(subject="Call with client", type="call", due_date="2025-01-15")
CallWithClient ==
    [subject |-> SubjectWithClient, type |-> TypeCall, owner_id |-> None, deal_id |-> None,
     person_id |-> None, org_id |-> None, lead_id |-> None, due_date |-> Date20250115,
     due_time |-> None, duration |-> None, priority |-> None]

CreateActivityInputs ==
    Calls([subject |-> NameC, type |-> TypeCall, owner_id |-> None, deal_id |-> None,
           person_id |-> None, org_id |-> None, lead_id |-> None, due_date |-> None,
           due_time |-> None, duration |-> None, priority |-> None],
          [subject |-> {Empty, Blank}, type |-> {Blank},
           owner_id |-> {Five, Letters}, deal_id |-> {Zero},
           person_id |-> {Seven}, org_id |-> {Letters},
           lead_id |-> {UuidUpper, UuidBad},
           due_date |-> {Date20250115, DateSlashes},
           due_time |-> {IsoDateTime, Letters},
           duration |-> {Seconds3600, Letters},
           priority |-> {Five, Letters}])
    \cup {CallWithClient, CallWithClient @@ [owner_id_str |-> OneTwoThree],
          [CallWithClient EXCEPT !.owner_id = OneTwoThree]}

(*************************** persons tools ******************************)
\* `x is not None and x.strip()`
NonBlank(v) == ~IsNone(v) /\ Strip(v.v) # <<>>

\* int(x) inside try/except ValueError, applied only to non-blank input
RawIntStep(field, v) ==
    When(NonBlank(v),
         <<Step(field,
                IF IntOf(v).ok THEN None
                ELSE Msg(<<"Invalid ", field, " format: '", v.v, "'. Must be an integer string.">>),
                "conversion")>>)
RawIntOf(v) == IF NonBlank(v) /\ IntOf(v).ok THEN I(IntOf(v).v) ELSE None

ContactPayload(value, label) ==
    IF NonBlank(value) THEN [t |-> "list", v |-> <<value.v, label>>] ELSE None

create_person_local(a) ==
    LET steps == RawIntStep("owner_id", a.owner_id_str)
                 \o RawIntStep("org_id", a.org_id_str)
                 \o RawIntStep("visible_to", a.visible_to_str)
    IN RunSteps(steps,
                LocalCall(ConvFieldsOf(steps), FALSE, "create_person",
                          [name |-> a.name,
                           owner_id |-> RawIntOf(a.owner_id_str),
                           org_id |-> RawIntOf(a.org_id_str),
                           emails |-> ContactPayload(a.email_address, "work"),
                           phones |-> ContactPayload(a.phone_number, "work"),
                           visible_to |-> RawIntOf(a.visible_to_str)]))

create_person_resume(a, out) ==
    CASE out.k = "ok" ->
           IF IsNone(out.v)
           THEN OnUnexpected(OtherError("AttributeError"), <<"An unexpected error occurred: ">>)
           ELSE Final(format_tool_response(TRUE, out.v, None), "success")
      [] out.k = "api_error" -> OnApiError(out, <<>>, TRUE)
      [] OTHER -> OnUnexpected(out, <<"An unexpected error occurred: ">>)

CreatePersonInputs ==
    Calls([name |-> NameC, owner_id_str |-> None, org_id_str |-> None,
           email_address |-> None, phone_number |-> None, visible_to_str |-> None],
          [name |-> {Empty}, owner_id_str |-> {Five, Letters, Blank},
           org_id_str |-> {Zero, Letters}, email_address |-> {Letters, Empty},
           phone_number |-> {Five}, visible_to_str |-> {MinusOne, Letters}])

\* all(param is None for param in [...])
AllNone(values) == \A i \in 1..Len(values) : IsNone(values[i])

update_person_steps(a) ==
    <<Step("update_fields",
           IF AllNone(<<a.name, a.owner_id_str, a.org_id_str, a.email_address,
                        a.phone_number, a.visible_to_str>>)
           THEN Msg(<<"At least one field must be provided to update a person">>) ELSE None,
           "precondition"),
      Conv("person_id", convert_id_string(a.id_str, "person_id", "123")),
      Conv("owner_id", convert_id_string(a.owner_id_str, "owner_id", "123")),
      Conv("org_id", convert_id_string(a.org_id_str, "org_id", "123")),
      Conv("visible_to", convert_id_string(a.visible_to_str, "visible_to", "123"))>>

\* update_data holds only the keys that were set
update_person_data(a) ==
    LET all == [name |-> a.name,
                owner_id |-> convert_id_string(a.owner_id_str, "owner_id", "123")[1],
                org_id |-> convert_id_string(a.org_id_str, "org_id", "123")[1],
                visible_to |-> convert_id_string(a.visible_to_str, "visible_to", "123")[1],
                emails |-> ContactPayload(a.email_address, "work"),
                phones |-> ContactPayload(a.phone_number, "work")]
    IN [k \in {f \in DOMAIN all : ~IsNone(all[f])} |-> all[k]]

update_person_local(a) ==
    LET steps == update_person_steps(a)
    IN RunSteps(steps,
                LocalCall(ConvFieldsOf(steps), FALSE, "update_person",
                          [person_id |-> convert_id_string(a.id_str, "person_id", "123")[1],
                           update_data |-> update_person_data(a)]))

update_person_resume(a, out) ==
    CASE out.k = "ok" -> Final(format_tool_response(TRUE, out.v, None), "success")
      [] out.k = "api_error" -> OnApiError(out, <<>>, TRUE)
         \* except ValueError: the client's own "at least one field" check
      [] out.k = "error" /\ out.name = "ValueError: At least one field must be provided for updating a person." ->
           Final(format_tool_response(FALSE, None, Msg(<<out.name>>)), "precondition")
      [] out.k = "error" /\ out.name = "ValueError" ->
           Final(format_tool_response(FALSE, None, Msg(<<out.name>>)), "value_error")
      [] OTHER -> OnUnexpected(out, <<"An unexpected error occurred: ">>)

UpdatePersonInputs ==
    Calls([id_str |-> Five, name |-> None, owner_id_str |-> None, org_id_str |-> None,
           email_address |-> None, phone_number |-> None, visible_to_str |-> None],
          [id_str |-> {Empty, Letters}, name |-> {NameC, Empty},
           owner_id_str |-> {Seven, Letters}, org_id_str |-> {Blank},
           email_address |-> {Letters, Blank}, phone_number |-> {Empty},
           visible_to_str |-> {Zero}])

(*************************** PersonClient *******************************)
\* PersonClient.update_person raises ValueError when its payload is empty
PersonClient_update_precheck(payload) ==
    IF DOMAIN payload.update_data = {}
    THEN Exc("ValueError: At least one field must be provided for updating a person.")
    ELSE None

\* response_data.get("data", {})
DataOf(body) == body

(*************************** floats *************************************)
\* Python floats over the inputs used here: an integer value, or NaN
F(n) == [t |-> "float", v |-> n, nan |-> FALSE]
NaN == [t |-> "float", v |-> 0, nan |-> TRUE]
StrNaN == S(<<"n", "a", "n">>)
\* float(str): ok = FALSE stands for ValueError
PyFloat(s) ==
    IF Lower(Strip(s)) = <<"n", "a", "n">> THEN [ok |-> TRUE, v |-> NaN]
    ELSE IF PyInt(s).ok THEN [ok |-> TRUE, v |-> F(PyInt(s).v)]
    ELSE [ok |-> FALSE, v |-> NaN]
\* comparisons with NaN are all false
FLess(x, k) == ~x.nan /\ x.v < k
FLessEq(x, k) == ~x.nan /\ x.v <= k

(*************************** update_deal_in_pipedrive *******************)
DealStatuses == {<<"o", "p", "e", "n">>, <<"w", "o", "n">>, <<"l", "o", "s", "t">>}
StatusLost == S(<<"l", "o", "s", "t">>)
StatusBad == S(<<"x">>)
ReasonText == S(<<"r">>)
OneOhOne == S(<<"1", "0", "1">>)

update_deal_steps(a) ==
    LET value == sanitize(a.value)
        probability == sanitize(a.probability)
        cid(v, f) == convert_id_string(sanitize(v), f, "123")
        value_float == IF ~IsNone(value) /\ PyFloat(value.v).ok THEN PyFloat(value.v).v ELSE None
        probability_int == IF ~IsNone(probability) /\ IntOf(probability).ok
                           THEN I(IntOf(probability).v) ELSE None
    IN <<Conv("deal_id", convert_id_string(a.id_str, "deal_id", "123")),
         Conv("person_id", cid(a.person_id_str, "person_id")),
         Conv("org_id", cid(a.org_id_str, "org_id")),
         Conv("owner_id", cid(a.owner_id_str, "owner_id")),
         Conv("stage_id", cid(a.stage_id_str, "stage_id")),
         Conv("pipeline_id", cid(a.pipeline_id_str, "pipeline_id")),
         Conv("visible_to", cid(a.visible_to_str, "visible_to"))>>
       \o When(~IsNone(value),
               <<Step("value",
                      IF PyFloat(value.v).ok THEN None
                      ELSE Msg(<<"Invalid deal value format: '", value.v, "'. Must be a valid number.">>),
                      "conversion")>>)
       \o When(~IsNone(probability),
               <<Step("probability",
                      IF ~IntOf(probability).ok
                      THEN Msg(<<"Invalid probability format: '", probability.v, "'. Must be an integer.">>)
                      ELSE IF IntOf(probability).v < 0 \/ IntOf(probability).v > 100
                      THEN Msg(<<"Invalid probability value: ", "probability_int", ". Must be between 0 and 100.">>)
                      ELSE None,
                      "conversion")>>)
       \o <<Step("update_fields",
                 IF AllNone(<<sanitize(a.title), value_float, sanitize(a.currency),
                              cid(a.person_id_str, "person_id")[1], cid(a.org_id_str, "org_id")[1],
                              sanitize(a.status), cid(a.owner_id_str, "owner_id")[1],
                              cid(a.stage_id_str, "stage_id")[1],
                              cid(a.pipeline_id_str, "pipeline_id")[1],
                              sanitize(a.expected_close_date),
                              cid(a.visible_to_str, "visible_to")[1], probability_int,
                              sanitize(a.lost_reason)>>)
                 THEN Msg(<<"At least one field must be provided for updating a deal">>)
                 ELSE None,
                 "precondition"),
            Step("status",
                 IF ~IsNone(sanitize(a.status)) /\ sanitize(a.status).v \notin DealStatuses
                 THEN Msg(<<"Invalid status: '", sanitize(a.status).v, "'. Must be one of: open, won, lost">>)
                 ELSE None,
                 "precondition"),
            Step("lost_reason",
                 IF ~IsNone(sanitize(a.lost_reason)) /\ sanitize(a.status) # StatusLost
                 THEN Msg(<<"Lost reason can only be provided when status is 'lost'">>)
                 ELSE None,
                 "precondition")>>

update_deal_local(a) ==
    LET steps == update_deal_steps(a)
        cid(v, f) == convert_id_string(sanitize(v), f, "123")[1]
    IN RunSteps(steps,
                LocalCall(ConvFieldsOf(steps), FALSE, "update_deal",
                          [deal_id |-> convert_id_string(a.id_str, "deal_id", "123")[1],
                           title |-> sanitize(a.title),
                           value |-> IF IsNone(sanitize(a.value)) THEN None
                                     ELSE PyFloat(a.value.v).v,
                           currency |-> sanitize(a.currency),
                           person_id |-> cid(a.person_id_str, "person_id"),
                           org_id |-> cid(a.org_id_str, "org_id"),
                           status |-> sanitize(a.status),
                           expected_close_date |-> sanitize(a.expected_close_date),
                           owner_id |-> cid(a.owner_id_str, "owner_id"),
                           stage_id |-> cid(a.stage_id_str, "stage_id"),
                           pipeline_id |-> cid(a.pipeline_id_str, "pipeline_id"),
                           visible_to |-> cid(a.visible_to_str, "visible_to"),
                           probability |-> IF IsNone(sanitize(a.probability)) THEN None
                                           ELSE I(IntOf(a.probability).v),
                           lost_reason |-> sanitize(a.lost_reason)]))

update_deal_resume(a, out) ==
    CASE out.k = "ok" -> Final(format_tool_response(TRUE, out.v, None), "success")
      [] out.k = "api_error" -> OnApiError(out, <<>>, TRUE)
      [] OTHER -> OnUnexpected(out, <<"An unexpected error occurred: ">>)

UpdateDealInputs ==
    Calls([id_str |-> Five, title |-> None, value |-> None, currency |-> None,
           person_id_str |-> None, org_id_str |-> None, status |-> None,
           owner_id_str |-> None, stage_id_str |-> None, pipeline_id_str |-> None,
           expected_close_date |-> None, visible_to_str |-> None, probability |-> None,
           lost_reason |-> None],
          [id_str |-> {Empty, Letters}, title |-> {NameC, Empty},
           value |-> {Hundred, Letters}, currency |-> {Empty},
           person_id_str |-> {Letters}, org_id_str |-> {Zero},
           status |-> {StatusLost, StatusBad}, owner_id_str |-> {Blank},
           stage_id_str |-> {Seven}, pipeline_id_str |-> {MinusOne},
           expected_close_date |-> {Date20250230},
           probability |-> {Five, OneOhOne}, lost_reason |-> {ReasonText}])

(*************************** leads tools ********************************)
\* Lead.from_api_dict(...).model_dump(): lenient, keeps what the API returned
Lead_from_api_dict(v) == v

\* Lead(...): a person or an organization is required
Lead(kw) ==
    [ok |-> ~IsNone(kw.person_id) \/ ~IsNone(kw.organization_id),
     obj |-> kw]

\* float(value) inside try/except ValueError
FloatStep(field, v, pieces) ==
    When(~IsNone(v),
         <<Step(field, IF PyFloat(v.v).ok THEN None ELSE Msg(pieces), "conversion")>>)
FloatOf(v) == IF ~IsNone(v) /\ PyFloat(v.v).ok THEN PyFloat(v.v).v ELSE None

\* a conversion made only when `cond` holds; the value is None otherwise
ConvWhen(cond, field, v) == When(cond, <<Conv(field, convert_id_string(v, field, "123"))>>)
IdWhen(cond, field, v) == IF cond THEN convert_id_string(v, field, "123")[1] ELSE None

delete_lead_local(a) ==
    LET steps == <<Conv("lead_id", validate_uuid_string(a.lead_id, "lead_id", UuidExample[1]))>>
    IN RunSteps(steps,
                LocalCall(ConvFieldsOf(steps), FALSE, "delete_lead",
                          [lead_id |-> validate_uuid_string(a.lead_id, "lead_id",
                                                            UuidExample[1])[1]]))

delete_lead_resume(a, out) ==
    CASE out.k = "ok" ->
           IF Truthy(out.v) /\ out.v # Obj("error_details")
           THEN Final(format_tool_response(TRUE, Obj("deleted"), None), "success")
           \* result.get("error_details") on None raises AttributeError
           ELSE IF IsNone(out.v)
           THEN OnUnexpected(OtherError("AttributeError"), <<"Failed to delete lead: ">>)
           ELSE Final(format_tool_response(FALSE,
                                           IF out.v = Obj("error_details") THEN out.v ELSE None,
                                           Msg(<<"Failed to delete lead with ID ", a.lead_id.v>>)),
                      "api")
      [] out.k = "api_error" -> OnApiError(out, <<"Pipedrive API error: ">>, FALSE)
      [] out.k = "error" /\ out.name = "ValueError" ->
           Final(format_tool_response(FALSE, None, Msg(<<out.name>>)), "value_error")
      [] OTHER -> OnUnexpected(out, <<"Failed to delete lead: ">>)

DeleteLeadInputs ==
    Calls([lead_id |-> UuidUpper], [lead_id |-> {UuidBad, Empty, Blank}])

StrTrue == S(<<"t", "r", "u", "e">>)

update_lead_steps(a) ==
    <<Conv("lead_id", validate_uuid_string(a.lead_id, "lead_id", UuidExample[1]))>>
    \o ConvWhen(~IsNone(a.person_id), "person_id", a.person_id)
    \o ConvWhen(~IsNone(a.organization_id), "organization_id", a.organization_id)
    \o ConvWhen(~IsNone(a.owner_id), "owner_id", a.owner_id)
    \o ConvWhen(~IsNone(a.visible_to), "visible_to", a.visible_to)
    \o FloatStep("value", a.value, <<"Invalid value format: ", a.value.v, ". Must be a valid number.">>)
    \o <<Step("update_fields",
              IF AllNone(<<a.title, a.value, a.currency, a.person_id, a.organization_id,
                           a.owner_id, a.label_ids, a.expected_close_date, a.visible_to,
                           a.is_archived, a.was_seen>>)
              THEN Msg(<<"At least one field must be provided for update">>) ELSE None,
              "precondition")>>

update_lead_local(a) ==
    LET steps == update_lead_steps(a)
    IN RunSteps(steps,
                LocalCall(ConvFieldsOf(steps), FALSE, "update_lead",
                          [lead_id |-> validate_uuid_string(a.lead_id, "lead_id", UuidExample[1])[1],
                           title |-> a.title,
                           amount |-> FloatOf(a.value),
                           currency |-> a.currency,
                           person_id |-> IdWhen(~IsNone(a.person_id), "person_id", a.person_id),
                           organization_id |-> IdWhen(~IsNone(a.organization_id),
                                                      "organization_id", a.organization_id),
                           owner_id |-> IdWhen(~IsNone(a.owner_id), "owner_id", a.owner_id),
                           label_ids |-> IF IsNone(a.label_ids) THEN None
                                         ELSE safe_split_to_list(a.label_ids),
                           expected_close_date |-> a.expected_close_date,
                           visible_to |-> IdWhen(~IsNone(a.visible_to), "visible_to", a.visible_to),
                           is_archived |-> IF IsNone(a.is_archived) THEN None
                                           ELSE [t |-> "bool", v |-> Lower(a.is_archived.v) = StrTrue.v],
                           was_seen |-> IF IsNone(a.was_seen) THEN None
                                        ELSE [t |-> "bool", v |-> Lower(a.was_seen.v) = StrTrue.v]]))

update_lead_resume(a, out) ==
    CASE out.k = "ok" ->
           IF ~Truthy(out.v)
           THEN Final(format_tool_response(FALSE, None,
                        Msg(<<"Lead with ID ", a.lead_id.v, " not found or could not be updated">>)),
                      "api")
           ELSE Final(format_tool_response(TRUE, Lead_from_api_dict(out.v), None), "success")
      [] out.k = "api_error" -> OnApiError(out, <<"Pipedrive API error: ">>, FALSE)
      [] OTHER -> OnUnexpected(out, <<"Failed to update lead: ">>)

UpdateLeadInputs ==
    Calls([lead_id |-> UuidUpper, title |-> None, value |-> None, currency |-> None,
           person_id |-> None, organization_id |-> None, owner_id |-> None,
           label_ids |-> None, expected_close_date |-> None, visible_to |-> None,
           is_archived |-> None, was_seen |-> None],
          [lead_id |-> {UuidBad, Empty}, title |-> {NameC, Empty},
           value |-> {Hundred, Letters}, currency |-> {Empty},
           person_id |-> {Seven, Blank}, organization_id |-> {Zero},
           owner_id |-> {Letters}, label_ids |-> {Empty},
           visible_to |-> {Five}, is_archived |-> {StrTrue}])

create_lead_steps(a) ==
    FloatStep("value", a.value, <<"Invalid value format: ", a.value.v, ". Must be a valid number.">>)
    \o ConvWhen(Truthy(a.person_id), "person_id", a.person_id)
    \o ConvWhen(Truthy(a.organization_id), "organization_id", a.organization_id)
    \o ConvWhen(Truthy(a.owner_id), "owner_id", a.owner_id)
    \o ConvWhen(Truthy(a.visible_to), "visible_to", a.visible_to)
    \o <<Step("person_or_organization",
              \* `if not person_id_int and not organization_id_int`
              IF ~Truthy(IdWhen(Truthy(a.person_id), "person_id", a.person_id))
                 /\ ~Truthy(IdWhen(Truthy(a.organization_id), "organization_id", a.organization_id))
              THEN Msg(<<"Either person_id or organization_id must be provided">>) ELSE None,
              "precondition")>>

create_lead_fields(a) ==
    [title |-> a.title,
     amount |-> FloatOf(a.value),
     currency |-> a.currency,
     person_id |-> IdWhen(Truthy(a.person_id), "person_id", a.person_id),
     organization_id |-> IdWhen(Truthy(a.organization_id), "organization_id", a.organization_id),
     owner_id |-> IdWhen(Truthy(a.owner_id), "owner_id", a.owner_id),
     label_ids |-> IF Truthy(a.label_ids) THEN safe_split_to_list(a.label_ids) ELSE None,
     expected_close_date |-> a.expected_close_date,
     visible_to |-> IdWhen(Truthy(a.visible_to), "visible_to", a.visible_to)]

create_lead_local_unchecked(a) ==
    LocalCall(<<>>, TRUE, "create_lead", create_lead_fields(a))

create_lead_local(a) ==
    LET steps == create_lead_steps(a)
        lead == Lead(create_lead_fields(a))
    IN RunSteps(steps,
                IF ~lead.ok
                THEN LocalInvalid(ConvFieldsOf(steps), Msg(<<"validation errors for Lead">>))
                ELSE LocalCall(ConvFieldsOf(steps), TRUE, "create_lead", lead.obj))

create_lead_resume(a, out) ==
    CASE out.k = "ok" -> Final(format_tool_response(TRUE, Lead_from_api_dict(out.v), None), "success")
      [] out.k = "api_error" -> OnApiError(out, <<"Pipedrive API error: ">>, FALSE)
      [] OTHER -> OnUnexpected(out, <<"Failed to create lead: ">>)

CurrencyUSD == S(<<"U", "S", "D">>)
CreateLeadInputs ==
    Calls([title |-> NameC, value |-> None, currency |-> CurrencyUSD, person_id |-> None,
           organization_id |-> None, owner_id |-> None, label_ids |-> None,
           expected_close_date |-> None, visible_to |-> None],
          [title |-> {Empty}, value |-> {Hundred, Letters}, currency |-> {Empty},
           person_id |-> {Five, Zero, Letters, Blank, Empty},
           organization_id |-> {Seven, MinusOne, Blank},
           owner_id |-> {Letters}, label_ids |-> {Five},
           expected_close_date |-> {Date20250115}, visible_to |-> {Five}])

ArchivedBad == S(<<"x">>)
list_leads_steps(a) ==
    <<Step("pagination",
           IF (Truthy(a.limit) /\ ~IntOf(a.limit).ok) \/ (Truthy(a.start) /\ ~IntOf(a.start).ok)
           THEN Msg(<<"Invalid pagination parameters. Limit and start must be integers.">>)
           ELSE None,
           "conversion"),
      Step("archived_status",
           IF Truthy(a.archived_status) /\ a.archived_status = ArchivedBad
           THEN Msg(<<"Invalid archived_status. Must be one of: archived, not_archived, all">>)
           ELSE None,
           "precondition")>>
    \o ConvWhen(Truthy(a.owner_id), "owner_id", a.owner_id)
    \o ConvWhen(Truthy(a.person_id), "person_id", a.person_id)
    \o ConvWhen(Truthy(a.organization_id), "organization_id", a.organization_id)
    \o ConvWhen(Truthy(a.filter_id), "filter_id", a.filter_id)

list_leads_local(a) ==
    LET steps == list_leads_steps(a)
    IN RunSteps(steps,
                LocalCall(ConvFieldsOf(steps), FALSE, "list_leads",
                          [limit |-> IF Truthy(a.limit) THEN I(IntOf(a.limit).v) ELSE I(100),
                           start |-> IF Truthy(a.start) THEN I(IntOf(a.start).v) ELSE None,
                           archived_status |-> a.archived_status,
                           owner_id |-> IdWhen(Truthy(a.owner_id), "owner_id", a.owner_id),
                           person_id |-> IdWhen(Truthy(a.person_id), "person_id", a.person_id),
                           organization_id |-> IdWhen(Truthy(a.organization_id),
                                                      "organization_id", a.organization_id),
                           filter_id |-> IdWhen(Truthy(a.filter_id), "filter_id", a.filter_id),
                           sort |-> None]))

list_leads_resume(a, out) ==
    CASE out.k = "ok" ->
           \* the result is unpacked into (leads_list, total_count, next_start)
           IF IsNone(out.v)
           THEN OnUnexpected(OtherError("TypeError"), <<"Failed to list leads: ">>)
           ELSE Final(format_tool_response(TRUE, Lead_from_api_dict(out.v), None), "success")
      [] out.k = "api_error" -> OnApiError(out, <<"Pipedrive API error: ">>, FALSE)
      [] out.k = "error" /\ out.name = "ValueError" ->
           Final(format_tool_response(FALSE, None, Msg(<<out.name>>)), "value_error")
      [] OTHER -> OnUnexpected(out, <<"Failed to list leads: ">>)

ListLeadsInputs ==
    Calls([limit |-> Hundred, start |-> None, archived_status |-> None, owner_id |-> None,
           person_id |-> None, organization_id |-> None, filter_id |-> None],
          [limit |-> {Letters, Empty, MinusOne}, start |-> {Five, Letters},
           archived_status |-> {ArchivedBad}, owner_id |-> {Five, Letters},
           person_id |-> {Zero}, organization_id |-> {Blank}, filter_id |-> {Seven}])

(*************************** DealProduct model ***************************)
Percentage == S(<<"p", "e", "r", "c", "e", "n", "t", "a", "g", "e">>)
Amount == S(<<"a", "m", "o", "u", "n", "t">>)
Inclusive == S(<<"i", "n", "c", "l", "u", "s", "i", "v", "e">>)
Exclusive == S(<<"e", "x", "c", "l", "u", "s", "i", "v", "e">>)
NoneWord == S(<<"n", "o", "n", "e">>)
OneTime == S(<<"o", "n", "e", "-", "t", "i", "m", "e">>)
Weekly == S(<<"w", "e", "e", "k", "l", "y">>)
Monthly == S(<<"m", "o", "n", "t", "h", "l", "y">>)
Quarterly == S(<<"q", "u", "a", "r", "t", "e", "r", "l", "y">>)
SemiAnnually == S(<<"s", "e", "m", "i", "-", "a", "n", "n", "u", "a", "l", "l", "y">>)
Annually == S(<<"a", "n", "n", "u", "a", "l", "l", "y">>)

valid_discount_types == {Percentage, Amount}
valid_tax_methods == {Inclusive, Exclusive, NoneWord}
valid_billing_frequencies == {OneTime, Annually, SemiAnnually, Quarterly, Monthly, Weekly}
MaxBillingCycles == 208

\* the fields of DealProduct in declaration order, and their defaults
DealProductFields ==
    <<"product_id", "item_price", "quantity", "discount", "tax", "comments", "currency",
      "discount_type", "tax_method", "is_enabled", "product_variation_id",
      "billing_frequency", "billing_frequency_cycles", "billing_start_date", "deal_id", "id">>
Missing == [t |-> "missing"]
DealProductDefaults ==
    [product_id |-> Missing, item_price |-> Missing, quantity |-> Missing,
     discount |-> F(0), tax |-> F(0), comments |-> None, currency |-> S(<<"U", "S", "D">>),
     discount_type |-> Percentage, tax_method |-> Inclusive, is_enabled |-> Bool(TRUE),
     product_variation_id |-> None, billing_frequency |-> OneTime,
     billing_frequency_cycles |-> None, billing_start_date |-> None, deal_id |-> None,
     id |-> None]
DealProductRequired ==
    {"product_id", "item_price", "quantity", "discount", "tax", "currency", "discount_type",
     "tax_method", "is_enabled", "billing_frequency"}

\* the declared field types: the fields that are not Optional do not accept
\* None, and the ones without a default must be given
DealProduct_type_errors(kw) ==
    {f \in DealProductRequired : kw[f] = Missing \/ IsNone(kw[f])}

\* validate_deal_product: the checks in code order, the first failing one raises
validate_deal_product(kw) ==
    <<Step("item_price",
           IF FLessEq(kw.item_price, 0)
           THEN Msg(<<"Product price must be greater than zero">>) ELSE None, "model"),
      Step("quantity",
           IF kw.quantity.v <= 0
           THEN Msg(<<"Product quantity must be greater than zero">>) ELSE None, "model"),
      Step("discount_type",
           IF kw.discount_type \notin valid_discount_types
           THEN Msg(<<"Discount type must be one of: percentage, amount">>) ELSE None, "model"),
      Step("tax_method",
           IF kw.tax_method \notin valid_tax_methods
           THEN Msg(<<"Tax method must be one of: inclusive, exclusive, none">>) ELSE None, "model"),
      Step("billing_frequency",
           IF kw.billing_frequency \notin valid_billing_frequencies
           THEN Msg(<<"Billing frequency must be one of: one-time, annually, semi-annually, quarterly, monthly, weekly">>)
           ELSE None, "model"),
      Step("cycles_one_time",
           IF kw.billing_frequency = OneTime /\ ~IsNone(kw.billing_frequency_cycles)
           THEN Msg(<<"Billing frequency cycles must be null when billing frequency is 'one-time'">>)
           ELSE None, "model"),
      Step("cycles_weekly",
           IF kw.billing_frequency = Weekly /\ IsNone(kw.billing_frequency_cycles)
           THEN Msg(<<"Billing frequency cycles cannot be null when billing frequency is 'weekly'">>)
           ELSE None, "model"),
      Step("cycles_range",
           IF ~IsNone(kw.billing_frequency_cycles)
              /\ (kw.billing_frequency_cycles.v <= 0
                  \/ kw.billing_frequency_cycles.v > MaxBillingCycles)
           THEN Msg(<<"Billing frequency cycles must be a positive integer less than or equal to 208">>)
           ELSE None, "model")>>

\* pydantic's ValidationError: raised by the field stage with one entry per
\* failing field, in declaration order, or by the model validator that runs
\* after it with the one rule that raised
ValidationError(stage, fields) ==
    [t |-> "exc", v |-> "ValidationError", stage |-> stage, fields |-> fields]

\* DealProduct(...)
DealProduct(given) ==
    LET kw == [f \in Range(DealProductFields) |->
                  IF f \in DOMAIN given THEN given[f] ELSE DealProductDefaults[f]]
        bad == DealProduct_type_errors(kw)
    IN IF bad # {}
       THEN [ok |-> FALSE, obj |-> kw, err |-> Msg(<<"validation errors for DealProduct">>),
             error |-> ValidationError("fields", SelectSeq(DealProductFields, LAMBDA f : f \in bad))]
       ELSE LET checks == validate_deal_product(kw)
            IN IF FailingSteps(checks) = {}
               THEN [ok |-> TRUE, obj |-> kw, err |-> None, error |-> None]
               ELSE [ok |-> FALSE, obj |-> kw, err |-> checks[FirstFailure(checks)].err,
                     error |-> ValidationError("after", <<checks[FirstFailure(checks)].f>>)]

\* {k: v for k, v in model_dump().items() if v is not None and k not in ["id", "deal_id"]}
DealProduct_to_api_dict(obj) ==
    LET keys == {k \in DOMAIN obj : ~IsNone(obj[k]) /\ k \notin {"id", "deal_id"}}
    IN [k \in keys |-> obj[k]]

(*************************** Deal model *********************************)
\* the fields of Deal in declaration order, and their defaults
DealFields ==
    <<"title", "value", "currency", "person_id", "org_id", "status", "owner_id", "stage_id",
      "pipeline_id", "expected_close_date", "visible_to", "probability", "lost_reason", "id">>
StatusOpen == S(<<"o", "p", "e", "n">>)
DealDefaults ==
    [title |-> Missing, value |-> None, currency |-> S(<<"U", "S", "D">>), person_id |-> None,
     org_id |-> None, status |-> StatusOpen, owner_id |-> None, stage_id |-> None,
     pipeline_id |-> None, expected_close_date |-> None, visible_to |-> None,
     probability |-> None, lost_reason |-> None, id |-> None]

valid_currencies ==
    {<<"U", "S", "D">>, <<"E", "U", "R">>, <<"G", "B", "P">>, <<"J", "P", "Y">>,
     <<"C", "N", "Y">>, <<"A", "U", "D">>, <<"C", "A", "D">>, <<"C", "H", "F">>,
     <<"H", "K", "D">>, <<"S", "G", "D">>, <<"S", "E", "K">>, <<"N", "O", "K">>,
     <<"D", "K", "K">>, <<"N", "Z", "D">>, <<"I", "N", "R">>, <<"B", "R", "L">>,
     <<"R", "U", "B">>, <<"Z", "A", "R">>, <<"M", "X", "N">>, <<"A", "E", "D">>,
     <<"P", "L", "N">>, <<"T", "R", "Y">>, <<"S", "A", "R">>, <<"I", "L", "S">>,
     <<"K", "R", "W">>, <<"I", "D", "R">>, <<"T", "H", "B">>, <<"M", "Y", "R">>,
     <<"P", "H", "P">>}

Deal_validate_positive_id(v, field_name) ==
    IF ~IsNone(v) /\ v.v <= 0 THEN Fail(Msg(<<field_name, " must be a positive integer if provided">>))
    ELSE Ok(v)

validate_non_negative_value(v) ==
    IF ~IsNone(v) /\ FLess(v, 0) THEN Fail(Msg(<<"Deal value must be non-negative if provided">>))
    ELSE Ok(v)

validate_probability_range(v) ==
    IF ~IsNone(v) /\ (v.v < 0 \/ v.v > 100)
    THEN Fail(Msg(<<"Deal probability must be between 0 and 100 if provided">>))
    ELSE Ok(v)

validate_currency(v) ==
    IF ~Truthy(v) THEN Ok(S(<<"U", "S", "D">>))
    ELSE LET u == Upper(v.v)
         IN IF Len(u) # 3
            THEN Fail(Msg(<<"Invalid currency code: ", u, ". Currency code must be 3 letters.">>))
            ELSE IF u \notin valid_currencies /\ (~IsAlpha(u) \/ Len(u) # 3)
            THEN Fail(Msg(<<"Invalid currency code format: ", u, ". Must be a 3-letter code (e.g., USD, EUR).">>))
            ELSE Ok(S(u))

validate_status(v) ==
    IF ~Truthy(v) THEN Ok(StatusOpen)
    ELSE IF Lower(v.v) \notin DealStatuses
    THEN Fail(Msg(<<"Invalid status: ", Lower(v.v), ". Must be one of: ">>))
    ELSE Ok(S(Lower(v.v)))

validate_title(v) ==
    IF ~Truthy(v) \/ Strip(v.v) = <<>> THEN Fail(Msg(<<"Deal title cannot be empty">>))
    ELSE Ok(S(Strip(v.v)))

\* expected_close_date: Optional[date], parsed from a YYYY-MM-DD string
Date(chars) == [t |-> "date", v |-> chars]
parse_date(v) ==
    IF IsNone(v) THEN Ok(None)
    ELSE IF Len(v.v) = 10 /\ IsIsoDate(v.v) THEN Ok(Date(v.v))
    ELSE Fail(Msg(<<"Input should be a valid date">>))
\* date.isoformat()
isoformat(d) == S(d.v)

\* the declared type first (title, currency and status are str, not
\* Optional), then the field's validator
DealFieldValidator(f, v) ==
    CASE f \in {"title", "currency", "status"} /\ IsNone(v) ->
            Fail(Msg(<<"Input should be a valid string">>))
      [] f = "title" -> validate_title(v)
      [] f = "value" -> validate_non_negative_value(v)
      [] f = "currency" -> validate_currency(v)
      [] f = "status" -> validate_status(v)
      [] f \in {"person_id", "org_id", "owner_id", "stage_id", "pipeline_id", "visible_to", "id"} ->
            Deal_validate_positive_id(v, f)
      [] f = "expected_close_date" -> parse_date(v)
      [] f = "probability" -> validate_probability_range(v)
      [] OTHER -> Ok(v)

\* the model validator, run after the fields
validate_deal(obj) ==
    IF obj.status # StatusLost /\ Truthy(obj.lost_reason)
    THEN Fail(Msg(<<"Lost reason can only be set if deal status is 'lost'">>))
    ELSE Ok(obj)

\* the field stage of a model: a given field goes through its validator, a
\* field that is not given takes its default, a required one must be given
FieldStage(fieldSeq, defaults, given, validated) ==
    [f \in Range(fieldSeq) |->
        IF f \in DOMAIN given THEN validated[f]
        ELSE IF defaults[f] = Missing THEN Fail(Msg(<<"Field required">>))
        ELSE Ok(defaults[f])]

\* a field stage that stops at the first failing field
FieldErrors_first_only(fieldSeq, res) ==
    LET failing == SelectSeq(fieldSeq, LAMBDA f : ~res[f].ok)
    IN IF failing = <<>> THEN <<>> ELSE <<failing[1]>>
\* the entries of the ValidationError of the field stage: one per failing field
FieldErrors(fieldSeq, res) == SelectSeq(fieldSeq, LAMBDA f : ~res[f].ok)

\* Deal(...)
Deal(given) ==
    LET res == FieldStage(DealFields, DealDefaults, given,
                          [f \in DOMAIN given |-> DealFieldValidator(f, given[f])])
        obj == [f \in Range(DealFields) |-> res[f].v]
        failing == FieldErrors(DealFields, res)
    IN IF failing # <<>>
       THEN [ok |-> FALSE, obj |-> obj, error |-> ValidationError("fields", failing)]
       ELSE IF ~validate_deal(obj).ok
       THEN [ok |-> FALSE, obj |-> obj, error |-> ValidationError("after", <<"lost_reason">>)]
       ELSE [ok |-> TRUE, obj |-> obj, error |-> None]

\* a dump that leaves expected_close_date a date object
Deal_to_api_dict_raw_date(obj) ==
    LET keys == {k \in DOMAIN obj : ~IsNone(obj[k]) /\ k # "id"}
    IN [k \in keys |-> obj[k]]

\* Deal.to_api_dict
Deal_to_api_dict(obj) ==
    LET keys == {k \in DOMAIN obj : ~IsNone(obj[k]) /\ k # "id"}
    IN [k \in keys |-> IF k = "expected_close_date" THEN isoformat(obj[k]) ELSE obj[k]]

(*************************** Organization and Person models *************)
List(q) == [t |-> "list", v |-> q]
\* name is a str, not Optional: None is refused by the declared type
NameTypeValidator(f, v) ==
    IF f = "name" /\ IsNone(v) THEN Fail(Msg(<<"Input should be a valid string">>)) ELSE Ok(v)

OrganizationFields == <<"name", "owner_id", "address", "visible_to", "id", "label_ids">>
OrganizationDefaults ==
    [name |-> Missing, owner_id |-> None, address |-> None, visible_to |-> None, id |-> None,
     label_ids |-> List(<<>>)]
validate_organization(obj) ==
    IF ~Truthy(obj.name) \/ Strip(obj.name.v) = <<>>
    THEN Fail(Msg(<<"Organization name cannot be empty">>))
    ELSE IF ~IsNone(obj.visible_to) /\ obj.visible_to.v \notin 1..4
    THEN Fail(Msg(<<"Invalid visibility value: ", "visible_to", ". Must be one of: 1, 2, 3, 4">>))
    ELSE Ok(obj)
\* Organization(...)
Organization(given) ==
    LET res == FieldStage(OrganizationFields, OrganizationDefaults, given,
                          [f \in DOMAIN given |-> NameTypeValidator(f, given[f])])
        obj == [f \in Range(OrganizationFields) |-> res[f].v]
        failing == FieldErrors(OrganizationFields, res)
    IN IF failing # <<>>
       THEN [ok |-> FALSE, obj |-> obj, error |-> ValidationError("fields", failing)]
       ELSE IF ~validate_organization(obj).ok
       THEN [ok |-> FALSE, obj |-> obj,
             error |-> ValidationError("after", IF ~Truthy(obj.name) \/ Strip(obj.name.v) = <<>>
                                                THEN <<"name">> ELSE <<"visible_to">>)]
       ELSE [ok |-> TRUE, obj |-> obj, error |-> None]
\* Organization.to_api_dict
Organization_to_api_dict(obj) ==
    LET keys == {k \in DOMAIN obj : ~IsNone(obj[k]) /\ k # "id"}
    IN [k \in keys |-> obj[k]]

PersonFields == <<"name", "owner_id", "org_id", "emails", "phones", "visible_to", "id">>
PersonDefaults ==
    [name |-> Missing, owner_id |-> None, org_id |-> None, emails |-> List(<<>>),
     phones |-> List(<<>>), visible_to |-> None, id |-> None]
\* Email(value=..., label=..., primary=...) as model_dump() shows it
Email(value, label, primary) == [value |-> value, label |-> label, primary |-> primary]
\* ContactInfo.to_dict
to_dict(info) == [value |-> info.value, label |-> info.label, primary |-> info.primary]
validate_person(obj) ==
    IF ~Truthy(obj.name) \/ Strip(obj.name.v) = <<>>
    THEN Fail(Msg(<<"Person name cannot be empty">>))
    ELSE Ok(obj)
\* Person(...)
Person(given) ==
    LET res == FieldStage(PersonFields, PersonDefaults, given,
                          [f \in DOMAIN given |-> NameTypeValidator(f, given[f])])
        obj == [f \in Range(PersonFields) |-> res[f].v]
        failing == FieldErrors(PersonFields, res)
    IN IF failing # <<>>
       THEN [ok |-> FALSE, obj |-> obj, error |-> ValidationError("fields", failing)]
       ELSE IF ~validate_person(obj).ok
       THEN [ok |-> FALSE, obj |-> obj, error |-> ValidationError("after", <<"name">>)]
       ELSE [ok |-> TRUE, obj |-> obj, error |-> None]
\* Person.to_api_dict
Person_to_api_dict(obj) ==
    LET keys == {k \in DOMAIN obj : ~IsNone(obj[k]) /\ k # "id"}
    IN [k \in keys |->
          IF k \in {"emails", "phones"} /\ obj[k].v # <<>>
          THEN List([i \in 1..Len(obj[k].v) |-> to_dict(obj[k].v[i])])
          ELSE obj[k]]

(*************************** add_product_to_deal_in_pipedrive ************)
\* `float(x) if x else 0` followed by the `< 0` check
NonNegativeFloatStep(field, v, label) ==
    <<Step(field,
           IF Truthy(v) /\ ~PyFloat(v.v).ok
           THEN Msg(<<"Invalid ", label, " format: '", v.v, "'. Must be a valid number.">>)
           ELSE IF Truthy(v) /\ FLess(PyFloat(v.v).v, 0)
           THEN Msg(<<label, " must be non-negative">>)
           ELSE None,
           "conversion")>>
NonNegativeFloatOf(v) == IF Truthy(v) /\ PyFloat(v.v).ok THEN PyFloat(v.v).v ELSE F(0)

\* validate_and_convert of the four parameter groups, in call order
add_product_steps(a) ==
    <<Conv("deal_id", convert_id_string(a.id_str, "deal_id", "123")),
      Conv("product_id", convert_id_string(a.product_id_str, "product_id", "123")),
      Step("item_price",
           IF ~PyFloat(a.item_price.v).ok
           THEN Msg(<<"Invalid item price format: '", a.item_price.v, "'. Must be a valid number.">>)
           ELSE IF FLess(PyFloat(a.item_price.v).v, 0)
           THEN Msg(<<"Item price must be non-negative">>)
           ELSE None,
           "conversion"),
      Step("quantity",
           IF ~IntOf(a.quantity).ok
           THEN Msg(<<"Invalid quantity format: '", a.quantity.v, "'. Must be a valid integer.">>)
           ELSE IF IntOf(a.quantity).v <= 0
           THEN Msg(<<"Quantity must be greater than zero.">>)
           ELSE None,
           "conversion")>>
    \o NonNegativeFloatStep("tax", a.tax, "Tax value")
    \o NonNegativeFloatStep("discount", a.discount, "Discount value")
    \o <<Step("discount_type",
              IF a.discount_type \notin valid_discount_types
              THEN Msg(<<"Invalid discount type: '", a.discount_type.v,
                         "'. Must be one of: percentage, amount">>)
              ELSE None,
              "precondition"),
         Step("tax_method",
              IF Truthy(a.tax_method) /\ a.tax_method \notin valid_tax_methods
              THEN Msg(<<"Invalid tax method: '", a.tax_method.v,
                         "'. Must be one of: inclusive, exclusive, none">>)
              ELSE None,
              "precondition")>>
    \o ConvWhen(Truthy(a.product_variation_id_str), "product_variation_id",
                a.product_variation_id_str)
    \o <<Step("billing_frequency",
              IF a.billing_frequency \notin valid_billing_frequencies
              THEN Msg(<<"Invalid billing frequency: '", a.billing_frequency.v, "'. ">>)
              ELSE None,
              "precondition")>>
    \o When(Truthy(a.billing_frequency_cycles),
            <<Step("billing_frequency_cycles",
                   IF ~IntOf(a.billing_frequency_cycles).ok
                   THEN Msg(<<"Invalid billing frequency cycles format: '",
                              a.billing_frequency_cycles.v, "'. Must be a valid integer.">>)
                   ELSE IF IntOf(a.billing_frequency_cycles).v <= 0
                           \/ IntOf(a.billing_frequency_cycles).v > MaxBillingCycles
                   THEN Msg(<<"Billing frequency cycles must be a positive integer less than or equal to 208.">>)
                   ELSE None,
                   "conversion")>>)
    \o When(Truthy(a.billing_start_date) /\ Strip(a.billing_start_date.v) # <<>>,
            <<Conv("billing_start_date",
                   validate_date_string(a.billing_start_date, "billing_start_date",
                                        "YYYY-MM-DD", "2025-12-31"))>>)

add_product_params(a) ==
    [deal_id |-> convert_id_string(a.id_str, "deal_id", "123")[1],
     product_id |-> convert_id_string(a.product_id_str, "product_id", "123")[1],
     item_price |-> IF PyFloat(a.item_price.v).ok THEN PyFloat(a.item_price.v).v ELSE None,
     quantity |-> IF IntOf(a.quantity).ok THEN I(IntOf(a.quantity).v) ELSE None,
     comments |-> IF a.comments = Empty THEN None ELSE a.comments,
     tax |-> NonNegativeFloatOf(a.tax),
     discount |-> NonNegativeFloatOf(a.discount),
     discount_type |-> a.discount_type,
     tax_method |-> a.tax_method,
     product_variation_id |-> IdWhen(Truthy(a.product_variation_id_str),
                                     "product_variation_id", a.product_variation_id_str),
     billing_frequency |-> a.billing_frequency,
     billing_frequency_cycles |-> IF Truthy(a.billing_frequency_cycles)
                                     /\ IntOf(a.billing_frequency_cycles).ok
                                  THEN I(IntOf(a.billing_frequency_cycles).v) ELSE None,
     billing_start_date |-> IF Truthy(a.billing_start_date)
                               /\ Strip(a.billing_start_date.v) # <<>>
                            THEN validate_date_string(a.billing_start_date, "billing_start_date",
                                                      "YYYY-MM-DD", "2025-12-31")[1]
                            ELSE None]

add_product_local(a) ==
    LET steps == add_product_steps(a)
        deal_product == DealProduct(add_product_params(a))
    IN RunSteps(steps,
                IF ~deal_product.ok
                THEN LocalInvalid(ConvFieldsOf(steps),
                                  Msg(<<"Validation error: ">> \o deal_product.err.v))
                ELSE LocalCall(ConvFieldsOf(steps), TRUE, "add_product_to_deal",
                               [deal_id |-> deal_product.obj.deal_id,
                                payload |-> DealProduct_to_api_dict(deal_product.obj)]))

add_product_resume(a, out) ==
    CASE out.k = "ok" -> Final(format_tool_response(TRUE, out.v, None), "success")
      [] out.k = "api_error" -> OnApiError(out, <<>>, TRUE)
      [] out.k = "error" /\ out.name = "ValueError" ->
           Final(format_tool_response(FALSE, None, Msg(<<out.name>>)), "value_error")
      [] OTHER -> OnUnexpected(out, <<"An unexpected error occurred: ">>)

TwoHundredNine == S(<<"2", "0", "9">>)
AddProductInputs ==
    Calls([id_str |-> Five, product_id_str |-> Seven, item_price |-> Hundred, quantity |-> Five,
           tax |-> Zero, comments |-> None, discount |-> Zero, discount_type |-> Percentage,
           tax_method |-> Inclusive, product_variation_id_str |-> None,
           billing_frequency |-> OneTime, billing_frequency_cycles |-> None,
           billing_start_date |-> None],
          [id_str |-> {Empty, Letters}, product_id_str |-> {Zero},
           item_price |-> {Zero, MinusOne, StrNaN, Letters}, quantity |-> {Zero, Letters},
           tax |-> {MinusOne}, discount |-> {Letters},
           discount_type |-> {Letters}, tax_method |-> {None, Letters},
           product_variation_id_str |-> {Zero},
           billing_frequency |-> {Weekly, Letters},
           billing_frequency_cycles |-> {Five, TwoHundredNine},
           billing_start_date |-> {Date20250230}])

(*************************** create_activity_type_in_pipedrive ***********)
\* int(order_nr_str); a negative number is logged and replaced by None
order_nr_of(order_nr_str) ==
    IF Truthy(order_nr_str) /\ IntOf(order_nr_str).ok /\ IntOf(order_nr_str).v >= 0
    THEN I(IntOf(order_nr_str).v) ELSE None

create_activity_type_steps(a) ==
    LET order_nr_str == IF a.order_nr_str = Empty THEN None ELSE a.order_nr_str
    IN When(Truthy(order_nr_str),
            <<Step("order_nr",
                   IF ~IntOf(order_nr_str).ok
                   THEN Msg(<<"Invalid order_nr format: '", order_nr_str.v,
                              "'. Must be a valid integer.">>)
                   ELSE None,
                   "conversion")>>)

\* The ActivityType model is a collaborator whose validators are outside
\* this code base: a.model_accepts is its verdict on the constructed fields.
create_activity_type_local(a) ==
    LET steps == create_activity_type_steps(a)
        order_nr_str == IF a.order_nr_str = Empty THEN None ELSE a.order_nr_str
    IN RunSteps(steps,
                IF ~a.model_accepts
                THEN LocalInvalid(ConvFieldsOf(steps),
                                  Msg(<<"Validation error: ", "validation errors for ActivityType">>))
                ELSE LocalCall(ConvFieldsOf(steps), TRUE, "create_activity_type",
                               [name |-> StripIfTruthy(a.name),
                                icon_key |-> StripIfTruthy(a.icon_key),
                                color |-> IF a.color = Empty THEN None ELSE a.color,
                                order_nr |-> order_nr_of(order_nr_str)]))

create_activity_type_resume(a, out) ==
    CASE out.k = "ok" -> Final(format_tool_response(TRUE, out.v, None), "success")
      [] out.k = "api_error" -> OnApiError(out, <<"Pipedrive API error: ">>, FALSE)
      [] OTHER -> OnUnexpected(out, <<"An unexpected error occurred: ">>)

IconKey == S(<<"t", "a", "s", "k">>)
CreateActivityTypeInputs ==
    Calls([name |-> NameC, icon_key |-> IconKey, color |-> None, order_nr_str |-> None,
           model_accepts |-> TRUE],
          [name |-> {Empty, Blank}, icon_key |-> {Empty}, color |-> {Empty, Letters},
           order_nr_str |-> {Five, Zero, MinusOne, Letters, Empty},
           model_accepts |-> {FALSE}])

(*************************** search_items_in_pipedrive *******************)
\* item types and field names are written as one-element sequences
DealWord == S(<<"deal">>)
NameWord == S(<<"name">>)
SixHundred == S(<<"6", "0", "0">>)
DefaultLimit == 100
MaxLimit == 500

valid_item_types ==
    {<<"deal">>, <<"person">>, <<"organization">>, <<"product">>,
     <<"lead">>, <<"file">>, <<"mail_attachment">>, <<"project">>}
valid_fields ==
    {<<"address">>, <<"code">>, <<"custom_fields">>, <<"email">>, <<"name">>,
     <<"notes">>, <<"organization_name">>, <<"person_name">>, <<"phone">>,
     <<"title">>, <<"description">>}

\* int(limit_str) with the fallbacks of the handler
search_limit(limit_str) ==
    IF ~Truthy(limit_str) THEN DefaultLimit
    ELSE IF ~IntOf(limit_str).ok THEN DefaultLimit
    ELSE IF IntOf(limit_str).v < 1 THEN DefaultLimit
    ELSE IF IntOf(limit_str).v > MaxLimit THEN MaxLimit
    ELSE IntOf(limit_str).v

search_items_steps(a) ==
    LET item_types == safe_split_to_list(IF a.item_types_str = Empty THEN None ELSE a.item_types_str)
        fields == safe_split_to_list(IF a.fields_str = Empty THEN None ELSE a.fields_str)
    IN <<Step("term",
              IF Len(Strip(a.term.v)) < 1
              THEN Msg(<<"Search term cannot be empty">>)
              ELSE IF ~a.exact_match /\ Len(Strip(a.term.v)) < 2
              THEN Msg(<<"Search term must be at least 2 characters when exact_match is False">>)
              ELSE None,
              "precondition"),
         Step("item_types",
              IF Truthy(item_types) /\ item_types.v[1] \notin valid_item_types
              THEN Msg(<<"Invalid item type: '", item_types.v[1], "'. Must be one of: ">>)
              ELSE None,
              "precondition"),
         Step("fields",
              IF Truthy(fields) /\ fields.v[1] \notin valid_fields
              THEN Msg(<<"Invalid field: '", fields.v[1], "'. Must be one of: ">>)
              ELSE None,
              "precondition")>>

search_items_local(a) ==
    LET steps == search_items_steps(a)
    IN RunSteps(steps,
                LocalCall(ConvFieldsOf(steps), FALSE, "search_items",
                          [term |-> a.term,
                           item_types |-> safe_split_to_list(IF a.item_types_str = Empty
                                                             THEN None ELSE a.item_types_str),
                           fields |-> safe_split_to_list(IF a.fields_str = Empty
                                                         THEN None ELSE a.fields_str),
                           exact_match |-> Bool(a.exact_match),
                           limit |-> I(search_limit(a.limit_str))]))

\* SearchResult(...): id, type and result_score are required
SearchResult_accepts(item) == item = Obj("record")

search_items_resume(a, out) ==
    CASE out.k = "ok" ->
           IF ~Truthy(out.v)
           THEN Final(format_tool_response(TRUE, Obj("no_items"), None), "success")
           ELSE IF SearchResult_accepts(out.v)
           THEN Final(format_tool_response(TRUE, Obj("results_model"), None), "success")
           \* ItemSearchResults.from_api_response raised: the raw items are returned
           ELSE Final(format_tool_response(TRUE, out.v, None), "fallback")
      [] out.k = "api_error" -> OnApiError(out, <<"Error searching Pipedrive: ">>, TRUE)
      [] out.k = "error" /\ out.name = "ValueError" ->
           Final(format_tool_response(FALSE, None, Msg(<<"Invalid parameter: ", out.name>>)),
                 "value_error")
      [] OTHER ->
           Final(format_tool_response(FALSE, None,
                                      Msg(<<"An unexpected error occurred during search">>)),
                 "unexpected")

SearchItemsInputs ==
    Calls([term |-> NameC, item_types_str |-> None, fields_str |-> None,
           exact_match |-> FALSE, limit_str |-> Hundred],
          [term |-> {Five, Empty, Blank}, item_types_str |-> {DealWord, Letters, Empty},
           fields_str |-> {NameWord, Letters}, exact_match |-> {TRUE},
           limit_str |-> {Five, Zero, SixHundred, Letters, None}])

(*************************** search_item_field_in_pipedrive **************)
MatchExact == S(<<"exact">>)
MatchBeginning == S(<<"beginning">>)
MatchMiddle == S(<<"middle">>)
TitleWord == S(<<"title">>)
valid_entity_types ==
    {<<"deal">>, <<"person">>, <<"organization">>, <<"product">>, <<"lead">>, <<"project">>}
valid_match_types == {<<"exact">>, <<"beginning">>, <<"middle">>}

\* len(term.strip()), zero for a term that is None
term_length(term) == IF Truthy(term) THEN Len(Strip(term.v)) ELSE 0

\* the lower bound the handler enforces on len(term.strip())
search_field_min_length(match) == IF match = MatchExact THEN 1 ELSE 2
\* the lower bound the handler's docstring states
search_field_min_length_documented(match) == IF match = MatchExact THEN 2 ELSE 1

search_field_steps(a) ==
    <<Step("term",
           IF ~Truthy(a.term) \/ term_length(a.term) < 1
           THEN Msg(<<"Search term cannot be empty">>)
           ELSE IF a.match = MatchExact /\ term_length(a.term) < 1
           THEN Msg(<<"Search term must be at least 1 character for exact matching">>)
           ELSE IF a.match # MatchExact /\ term_length(a.term) < 2
           THEN Msg(<<"Search term must be at least 2 characters for '">> \o a.match.v
                    \o <<"' matching (current length: ", ToString(term_length(a.term)), ")">>)
           ELSE None,
           "precondition"),
      Step("entity_type",
           IF ~Truthy(a.entity_type) \/ Strip(a.entity_type.v) = <<>>
           THEN Msg(<<"Entity type cannot be empty">>) ELSE None,
           "precondition"),
      Step("field",
           IF ~Truthy(a.field) \/ Strip(a.field.v) = <<>>
           THEN Msg(<<"Field key cannot be empty">>) ELSE None,
           "precondition"),
      Step("entity_type",
           IF a.entity_type.v \notin valid_entity_types
           THEN Msg(<<"Invalid entity type: '">> \o a.entity_type.v \o <<"'. Must be one of: ">>)
           ELSE None,
           "precondition"),
      Step("match",
           IF a.match.v \notin valid_match_types
           THEN Msg(<<"Invalid match type: '">> \o a.match.v \o <<"'. Must be one of: ">>)
           ELSE None,
           "precondition")>>

search_field_local(a) ==
    LET steps == search_field_steps(a)
    IN RunSteps(steps,
                LocalCall(ConvFieldsOf(steps), FALSE, "search_field",
                          [term |-> a.term, entity_type |-> a.entity_type, field |-> a.field,
                           match |-> a.match, limit |-> I(search_limit(a.limit_str)),
                           cursor |-> IF a.cursor = Empty THEN None ELSE a.cursor]))

search_field_resume(a, out) ==
    CASE out.k = "ok" ->
           IF ~Truthy(out.v)
           THEN Final(format_tool_response(TRUE, Obj("no_items"), None), "success")
           ELSE IF SearchResult_accepts(out.v)
           THEN Final(format_tool_response(TRUE, Obj("results_model"), None), "success")
           \* FieldSearchResults.from_api_response raised: the raw items are returned
           ELSE Final(format_tool_response(TRUE, out.v, None), "fallback")
      [] out.k = "api_error" -> OnApiError(out, <<"Error searching field in Pipedrive: ">>, TRUE)
      [] out.k = "error" /\ out.name = "ValueError" ->
           Final(format_tool_response(FALSE, None, Msg(<<"Invalid parameter: ", out.name>>)),
                 "value_error")
      [] OTHER ->
           Final(format_tool_response(FALSE, None,
                                      Msg(<<"An unexpected error occurred during field search">>)),
                 "unexpected")

SearchFieldInputs ==
    Calls([term |-> Letters, entity_type |-> DealWord, field |-> TitleWord,
           match |-> MatchExact, limit_str |-> Hundred, cursor |-> None],
          [term |-> {Five, Empty, Blank, NameC}, entity_type |-> {Letters, Blank},
           field |-> {Empty}, match |-> {MatchBeginning, MatchMiddle, Letters},
           limit_str |-> {SixHundred, Letters}, cursor |-> {Empty, Letters}])

(*************************** update_activity_in_pipedrive ***************)
\* update_fields: the entries the handler puts into the dict, before None
\* values are left out
update_activity_entries(a) ==
    [owner_id |-> convert_id_string(a.owner_id_str, "owner_id", "123")[1],
     deal_id |-> convert_id_string(a.deal_id_str, "deal_id", "123")[1],
     person_id |-> convert_id_string(a.person_id_str, "person_id", "123")[1],
     org_id |-> convert_id_string(a.org_id_str, "org_id", "123")[1],
     lead_id |-> validate_uuid_string(a.lead_id_str, "lead_id", UuidExample[1])[1],
     priority |-> IF Truthy(a.priority_str) /\ IntOf(a.priority_str).ok
                  THEN I(IntOf(a.priority_str).v) ELSE None,
     subject |-> a.subject, type |-> a.type, due_date |-> a.due_date,
     due_time |-> a.due_time, duration |-> a.duration, note |-> a.note,
     location |-> a.location, public_description |-> a.public_description,
     busy |-> a.busy, done |-> a.done]

update_fields(a) ==
    LET entries == update_activity_entries(a)
    IN [k \in {f \in DOMAIN entries : ~IsNone(entries[f])} |-> entries[k]]

update_activity_steps(a) ==
    <<Conv("activity_id", convert_id_string(a.id_str, "activity_id", "123")),
      Step("activity_id",
           IF IsNone(convert_id_string(a.id_str, "activity_id", "123")[1])
           THEN Msg(<<"Activity ID is required">>) ELSE None,
           "precondition"),
      Conv("owner_id", convert_id_string(a.owner_id_str, "owner_id", "123")),
      Conv("deal_id", convert_id_string(a.deal_id_str, "deal_id", "123")),
      Conv("person_id", convert_id_string(a.person_id_str, "person_id", "123")),
      Conv("org_id", convert_id_string(a.org_id_str, "org_id", "123")),
      Conv("lead_id", validate_uuid_string(a.lead_id_str, "lead_id", UuidExample[1]))>>
    \o When(Truthy(a.priority_str),
            <<Step("priority",
                   IF ~IntOf(a.priority_str).ok
                   THEN Msg(<<"Invalid priority format: '">> \o a.priority_str.v
                            \o <<"'. Must be a valid number.">>)
                   ELSE None,
                   "conversion")>>)
    \o <<Step("update_fields",
              IF DOMAIN update_fields(a) = {}
              THEN Msg(<<"At least one field must be provided for updating an activity">>)
              ELSE None,
              "precondition")>>

update_activity_local(a) ==
    LET steps == update_activity_steps(a)
        activity_id == convert_id_string(a.id_str, "activity_id", "123")[1]
        \* Activity(id=activity_id, **update_fields)
        model == Activity([id |-> activity_id] @@ update_fields(a))
    IN RunSteps(steps,
                IF ~model.ok
                THEN LocalInvalid(ConvFieldsOf(steps),
                                  Msg(<<"Validation error: ", "validation errors for Activity">>))
                ELSE LocalCall(ConvFieldsOf(steps), TRUE, "update_activity",
                               [activity_id |-> activity_id] @@ update_fields(a)))

update_activity_resume(a, out) ==
    CASE out.k = "ok" -> Final(format_tool_response(TRUE, out.v, None), "success")
      [] out.k = "api_error" -> OnApiError(out, <<"Pipedrive API error: ">>, FALSE)
      [] OTHER -> OnUnexpected(out, <<"An unexpected error occurred: ">>)

NoteText == S(<<"n">>)
UpdateActivityInputs ==
    Calls([id_str |-> Five, subject |-> None, type |-> None, owner_id_str |-> None,
           deal_id_str |-> None, lead_id_str |-> None, person_id_str |-> None,
           org_id_str |-> None, due_date |-> None, due_time |-> None, duration |-> None,
           busy |-> None, done |-> None, note |-> NoteText, location |-> None,
           public_description |-> None, priority_str |-> None],
          [id_str |-> {Empty, Blank, Zero, Letters}, subject |-> {NameC, Empty},
           type |-> {TypeCall}, owner_id_str |-> {Seven, Letters},
           due_date |-> {Date20250115}, note |-> {None}, done |-> {Bool(TRUE)},
           priority_str |-> {Five, Letters}])

(*************************** get_deal_from_pipedrive ********************)
\* [field.strip() for field in text.split(",")] for a text without commas
split_fields(v) == IF ~Truthy(v) THEN None ELSE List(<<Strip(v.v)>>)

get_deal_local(a) ==
    LET steps == <<Conv("deal_id", convert_id_string(a.id_str, "deal_id", "123"))>>
    IN RunSteps(steps,
                LocalCall(ConvFieldsOf(steps), FALSE, "get_deal",
                          [deal_id |-> convert_id_string(a.id_str, "deal_id", "123")[1],
                           include_fields |-> split_fields(sanitize(a.include_fields_str)),
                           custom_fields_keys |-> split_fields(sanitize(a.custom_fields_str))]))

get_deal_resume(a, out) ==
    CASE out.k = "ok" -> Final(format_tool_response(TRUE, out.v, None), "success")
      [] out.k = "api_error" -> OnApiError(out, <<>>, TRUE)
      [] OTHER -> OnUnexpected(out, <<"An unexpected error occurred: ">>)

GetDealInputs ==
    Calls([id_str |-> Five, include_fields_str |-> None, custom_fields_str |-> None],
          [id_str |-> {Empty, Blank, Zero, Letters, Seven},
           include_fields_str |-> {NameWord, Empty}, custom_fields_str |-> {Letters}])

(*************************** update_product_in_deal_in_pipedrive *********)
\* float(x) inside try/except ValueError, with no range check
PlainFloatStep(field, v, label) ==
    When(~IsNone(v),
         <<Step(field,
                IF PyFloat(v.v).ok THEN None
                ELSE Msg(<<"Invalid ", label, " format: '", v.v, "'. Must be a valid number.">>),
                "conversion")>>)

update_product_steps(a) ==
    LET item_price == sanitize(a.item_price)
        quantity == sanitize(a.quantity)
        cycles == sanitize(a.billing_frequency_cycles)
        discount_type == sanitize(a.discount_type)
        tax_method == sanitize(a.tax_method)
        billing_frequency == sanitize(a.billing_frequency)
    IN <<Conv("deal_id", convert_id_string(a.id_str, "deal_id", "123")),
         Conv("product_attachment_id",
              convert_id_string(a.product_attachment_id_str, "product_attachment_id", "123")),
         Conv("product_variation_id",
              convert_id_string(sanitize(a.product_variation_id_str), "product_variation_id", "123"))>>
       \o When(~IsNone(item_price),
               <<Step("item_price",
                      IF ~PyFloat(item_price.v).ok
                      THEN Msg(<<"Invalid item price format: '", item_price.v, "'. Must be a valid number.">>)
                      ELSE IF FLessEq(PyFloat(item_price.v).v, 0)
                      THEN Msg(<<"Item price must be greater than zero.">>)
                      ELSE None,
                      "conversion")>>)
       \o When(~IsNone(quantity),
               <<Step("quantity",
                      IF ~IntOf(quantity).ok
                      THEN Msg(<<"Invalid quantity format: '", quantity.v, "'. Must be a valid integer.">>)
                      ELSE IF IntOf(quantity).v <= 0
                      THEN Msg(<<"Quantity must be greater than zero.">>)
                      ELSE None,
                      "conversion")>>)
       \o PlainFloatStep("tax", sanitize(a.tax), "tax")
       \o PlainFloatStep("discount", sanitize(a.discount), "discount")
       \o When(~IsNone(cycles),
               <<Step("billing_frequency_cycles",
                      IF ~IntOf(cycles).ok
                      THEN Msg(<<"Invalid billing frequency cycles format: '", cycles.v,
                                 "'. Must be a valid integer.">>)
                      ELSE IF IntOf(cycles).v <= 0 \/ IntOf(cycles).v > MaxBillingCycles
                      THEN Msg(<<"Billing frequency cycles must be a positive integer less than or equal to 208.">>)
                      ELSE None,
                      "conversion")>>)
       \o <<Step("discount_type",
                 IF Truthy(discount_type) /\ discount_type \notin valid_discount_types
                 THEN Msg(<<"Invalid discount type: '", discount_type.v,
                            "'. Must be 'percentage' or 'amount'.">>)
                 ELSE None,
                 "precondition"),
            Step("tax_method",
                 IF Truthy(tax_method) /\ tax_method \notin valid_tax_methods
                 THEN Msg(<<"Invalid tax method: '", tax_method.v,
                            "'. Must be 'inclusive', 'exclusive', or 'none'.">>)
                 ELSE None,
                 "precondition"),
            Step("billing_frequency",
                 IF Truthy(billing_frequency) /\ billing_frequency \notin valid_billing_frequencies
                 THEN Msg(<<"Invalid billing frequency: '", billing_frequency.v, "'. ">>)
                 ELSE None,
                 "precondition"),
            Step("update_fields",
                 IF AllNone(<<sanitize(a.item_price), sanitize(a.quantity), sanitize(a.tax),
                              sanitize(a.comments), sanitize(a.discount), discount_type,
                              tax_method, a.is_enabled,
                              convert_id_string(sanitize(a.product_variation_id_str),
                                                "product_variation_id", "123")[1],
                              billing_frequency, cycles, sanitize(a.billing_start_date)>>)
                 THEN Msg(<<"At least one field must be provided for updating a product in a deal">>)
                 ELSE None,
                 "precondition")>>

update_product_local(a) ==
    LET steps == update_product_steps(a)
    IN RunSteps(steps,
                LocalCall(ConvFieldsOf(steps), FALSE, "update_product_in_deal",
                          [deal_id |-> convert_id_string(a.id_str, "deal_id", "123")[1],
                           product_attachment_id |->
                               convert_id_string(a.product_attachment_id_str,
                                                 "product_attachment_id", "123")[1],
                           item_price |-> FloatOf(sanitize(a.item_price)),
                           quantity |-> IF IsNone(sanitize(a.quantity)) THEN None
                                        ELSE I(IntOf(a.quantity).v),
                           tax |-> FloatOf(sanitize(a.tax)),
                           comments |-> sanitize(a.comments),
                           discount |-> FloatOf(sanitize(a.discount)),
                           discount_type |-> sanitize(a.discount_type),
                           tax_method |-> sanitize(a.tax_method),
                           is_enabled |-> a.is_enabled,
                           product_variation_id |->
                               convert_id_string(sanitize(a.product_variation_id_str),
                                                 "product_variation_id", "123")[1],
                           billing_frequency |-> sanitize(a.billing_frequency),
                           billing_frequency_cycles |->
                               IF IsNone(sanitize(a.billing_frequency_cycles)) THEN None
                               ELSE I(IntOf(a.billing_frequency_cycles).v),
                           billing_start_date |-> sanitize(a.billing_start_date)]))

update_product_resume(a, out) ==
    CASE out.k = "ok" -> Final(format_tool_response(TRUE, out.v, None), "success")
      [] out.k = "api_error" -> OnApiError(out, <<>>, TRUE)
      [] OTHER -> OnUnexpected(out, <<"An unexpected error occurred: ">>)

TwoHundredEight == S(<<"2", "0", "8">>)
UpdateProductInputs ==
    Calls([id_str |-> Five, product_attachment_id_str |-> Seven, item_price |-> None,
           quantity |-> None, tax |-> None, comments |-> None, discount |-> None,
           discount_type |-> None, tax_method |-> None, is_enabled |-> None,
           product_variation_id_str |-> None, billing_frequency |-> None,
           billing_frequency_cycles |-> None, billing_start_date |-> None],
          [id_str |-> {Letters}, product_attachment_id_str |-> {Zero},
           item_price |-> {Hundred, Zero}, quantity |-> {Zero, Letters},
           tax |-> {MinusOne}, comments |-> {Empty}, discount |-> {MinusOne, Letters},
           discount_type |-> {Letters}, tax_method |-> {Inclusive},
           is_enabled |-> {Bool(TRUE)}, product_variation_id_str |-> {Zero},
           billing_frequency |-> {OneTime, Weekly, Letters},
           billing_frequency_cycles |-> {Five, TwoHundredEight, TwoHundredNine},
           billing_start_date |-> {Date20250230}])

(*************************** HTTP client ********************************)
\* what one HTTP exchange can produce
HttpOutcomes ==
    {[k |-> "2xx_true", status |-> 200, body |-> Obj("record")],
     [k |-> "2xx_true", status |-> 200, body |-> Obj("empty")],
     [k |-> "2xx_true", status |-> 200, body |-> Obj("error_details")],
     [k |-> "2xx_true", status |-> 200, body |-> None],
     [k |-> "2xx_false", status |-> 200, body |-> Obj("error_body")],
     [k |-> "2xx_bad_json", status |-> 200, body |-> None],
     [k |-> "status_json", status |-> 404, body |-> Obj("error_body")],
     [k |-> "status_json_list", status |-> 404, body |-> Obj("list")],
     [k |-> "status_text", status |-> 500, body |-> None],
     [k |-> "network", status |-> 0, body |-> None]}

HttpFailed(o) == o.k # "2xx_true"

\* PipedriveClient._request after the exchange of one attempt
_request(o) ==
    CASE o.k = "2xx_true" -> Returned(o.body)
         \* the PipedriveAPIError raised for success=false is caught by the
         \* trailing `except Exception` and raised again without its details
      [] o.k = "2xx_false" ->
           ApiError("An unexpected error occurred in _request: PipedriveAPIError", None, None)
      [] o.k = "2xx_bad_json" ->
           ApiError("An unexpected error occurred in _request: JSONDecodeError", None, None)
      [] o.k = "status_json" -> ApiError("HTTP error", I(o.status), o.body)
         \* .get on a JSON body that is not an object raises inside the handler
      [] o.k = "status_json_list" -> OtherError("AttributeError")
      [] o.k = "status_text" -> ApiError("HTTP error", I(o.status), Obj("raw_error"))
      [] OTHER -> ApiError("Request failed", None, None)

request_retries(o, attempts, retries) == HttpFailed(o) /\ attempts < retries

\* TRUE when _request sends the request again after outcome o
request_again(o, attempts, retries) == FALSE

(*************************** state machine ******************************)
VARIABLES
    enabled,         \* registry._enabled_features
    retry_attempts,  \* PipedriveSettings.retry_attempts
    pc,              \* "idle", "waiting" (suspended at the remote await), "returned"
    tool,            \* the tool being invoked
    args,            \* its arguments
    gate,            \* whether the wrapper awaited the tool body
    conv,            \* fields converted so far, in order
    built,           \* whether the entity model was constructed
    calls,           \* client methods invoked, in order
    http,            \* HTTP request attempts of the current client request
    result,          \* what the tool returned to its caller
    path,            \* which branch produced the result
    iteration,       \* self.iteration of an agentic loop
    validation_passed, \* the local of run(): Unbound, Bool(TRUE) or Bool(FALSE)
    files,           \* the report files an agentic loop has written
    agent            \* the last agent process an agentic loop ran, and how it ended

vars ==
    <<enabled, retry_attempts, pc, tool, args, gate, conv, built, calls, http, result, path,
      iteration, validation_passed, files, agent>>

\* no agentic loop is running
NoAgent == [role |-> "none"]
Unbound == [t |-> "unbound"]
NoLoop == iteration = 0 /\ validation_passed = Unbound /\ files = {} /\ agent = NoAgent
loop_vars == <<iteration, validation_passed, files, agent>>

RetryChoices == {0, 3}

Resume(t, a, out) ==
    CASE t = "create_activity_in_pipedrive" -> create_activity_resume(a, out)
      [] t = "create_person_in_pipedrive" -> create_person_resume(a, out)
      [] t = "update_person_in_pipedrive" -> update_person_resume(a, out)
      [] t = "update_deal_in_pipedrive" -> update_deal_resume(a, out)
      [] t = "search_items_in_pipedrive" -> search_items_resume(a, out)
      [] t = "search_item_field_in_pipedrive" -> search_field_resume(a, out)
      [] t = "update_activity_in_pipedrive" -> update_activity_resume(a, out)
      [] t = "get_deal_from_pipedrive" -> get_deal_resume(a, out)
      [] t = "create_activity_type_in_pipedrive" -> create_activity_type_resume(a, out)
      [] t = "add_product_to_deal_in_pipedrive" -> add_product_resume(a, out)
      [] t = "list_leads_from_pipedrive" -> list_leads_resume(a, out)
      [] t = "create_lead_in_pipedrive" -> create_lead_resume(a, out)
      [] t = "update_lead_in_pipedrive" -> update_lead_resume(a, out)
      [] t = "delete_lead_from_pipedrive" -> delete_lead_resume(a, out)
      [] t = "update_product_in_deal_in_pipedrive" -> update_product_resume(a, out)

\* what the awaited client method returns given the data _request returned
ClientReturn(method, payload, body) == Returned(DataOf(body))

\* the client methods whose code is modelled; the others (deals, leads,
\* activities, item search) are collaborators that may fail on their own
PersonClientMethods == {"create_person", "update_person"}
OpaqueClient(method) == method \notin PersonClientMethods

\* an exception the client method raises before any request is sent;
\* None when it goes on to the request
ClientPrecheck(method, payload) ==
    IF method = "update_person" THEN PersonClient_update_precheck(payload) ELSE None

Idle ==
    /\ pc = "idle" /\ tool = "none" /\ args = <<>> /\ gate = FALSE /\ conv = <<>>
    /\ built = FALSE /\ calls = <<>> /\ http = 0 /\ result = NoResult /\ path = "none" /\ NoLoop

Init ==
    /\ enabled \in SUBSET Features
    /\ retry_attempts \in RetryChoices
    /\ Idle

\* the decorator's wrapper followed by the handler up to its await or return,
\* for a call that arrives while no other invocation is in progress;
\* `local` is the outcome of the handler's local part on arguments a
Invoke(t, a, local) ==
    /\ tool' = t /\ args' = a /\ http' = 0
    /\ IF ~wrapper_runs_body(enabled, t)
       THEN /\ gate' = FALSE /\ conv' = <<>> /\ built' = FALSE /\ calls' = <<>>
            /\ result' = Text(RefusalMessage(FeatureOf(t)))
            /\ path' = "disabled" /\ pc' = "returned"
       ELSE /\ gate' = TRUE /\ conv' = local.conv /\ built' = local.built
            /\ IF local.act = "call"
               THEN /\ calls' = <<[method |-> local.method, payload |-> local.payload]>>
                    /\ result' = NoResult /\ path' = "none" /\ pc' = "waiting"
               ELSE /\ calls' = <<>>
                    /\ result' = local.resp /\ path' = local.path /\ pc' = "returned"
    /\ UNCHANGED <<enabled, retry_attempts, loop_vars>>

CreateActivity ==
    \E a \in CreateActivityInputs :
        pc = "idle" /\ Invoke("create_activity_in_pipedrive", a, create_activity_local(a))
CreatePerson ==
    \E a \in CreatePersonInputs :
        pc = "idle" /\ Invoke("create_person_in_pipedrive", a, create_person_local(a))
UpdatePerson ==
    \E a \in UpdatePersonInputs :
        pc = "idle" /\ Invoke("update_person_in_pipedrive", a, update_person_local(a))
UpdateDeal ==
    \E a \in UpdateDealInputs :
        pc = "idle" /\ Invoke("update_deal_in_pipedrive", a, update_deal_local(a))
CreateActivityType ==
    \E a \in CreateActivityTypeInputs :
        pc = "idle" /\ Invoke("create_activity_type_in_pipedrive", a, create_activity_type_local(a))
SearchItems ==
    \E a \in SearchItemsInputs :
        pc = "idle" /\ Invoke("search_items_in_pipedrive", a, search_items_local(a))
SearchField ==
    \E a \in SearchFieldInputs :
        pc = "idle" /\ Invoke("search_item_field_in_pipedrive", a, search_field_local(a))
UpdateActivity ==
    \E a \in UpdateActivityInputs :
        pc = "idle" /\ Invoke("update_activity_in_pipedrive", a, update_activity_local(a))
GetDeal ==
    \E a \in GetDealInputs :
        pc = "idle" /\ Invoke("get_deal_from_pipedrive", a, get_deal_local(a))
AddProduct ==
    \E a \in AddProductInputs :
        pc = "idle" /\ Invoke("add_product_to_deal_in_pipedrive", a, add_product_local(a))
DeleteLead ==
    \E a \in DeleteLeadInputs :
        pc = "idle" /\ Invoke("delete_lead_from_pipedrive", a, delete_lead_local(a))
UpdateLead ==
    \E a \in UpdateLeadInputs :
        pc = "idle" /\ Invoke("update_lead_in_pipedrive", a, update_lead_local(a))
CreateLead ==
    \E a \in CreateLeadInputs :
        pc = "idle" /\ Invoke("create_lead_in_pipedrive", a, create_lead_local(a))
ListLeads ==
    \E a \in ListLeadsInputs :
        pc = "idle" /\ Invoke("list_leads_from_pipedrive", a, list_leads_local(a))
UpdateProduct ==
    \E a \in UpdateProductInputs :
        pc = "idle" /\ Invoke("update_product_in_deal_in_pipedrive", a, update_product_local(a))

Complete(out) ==
    LET f == Resume(tool, args, out)
    IN /\ result' = f.resp /\ path' = f.path /\ pc' = "returned"

\* the client method raises before sending anything
ClientRaises ==
    /\ pc = "waiting" /\ http = 0
    /\ LET pre == ClientPrecheck(calls[1].method, calls[1].payload)
       IN \/ /\ ~IsNone(pre)
             /\ Complete(OtherError(pre.v))
          \/ /\ IsNone(pre) /\ OpaqueClient(calls[1].method)
             /\ \E n \in {"ValueError", "AttributeError"} : Complete(OtherError(n))
    /\ UNCHANGED <<enabled, retry_attempts, tool, args, gate, conv, built, calls, http, loop_vars>>

\* one HTTP attempt of _request, and the handler's reaction to its outcome
HttpExchange ==
    /\ pc = "waiting"
    /\ IsNone(ClientPrecheck(calls[1].method, calls[1].payload))
    /\ \E o \in HttpOutcomes :
         /\ http' = http + 1
         /\ IF request_again(o, http + 1, retry_attempts)
            THEN UNCHANGED <<pc, result, path>>
            ELSE LET r == _request(o)
                 IN Complete(IF r.k = "ok"
                             THEN ClientReturn(calls[1].method, calls[1].payload, r.v)
                             ELSE r)
    /\ UNCHANGED <<enabled, retry_attempts, tool, args, gate, conv, built, calls, loop_vars>>

\* the caller takes the result; the next invocation starts from scratch
Finish ==
    /\ pc = "returned"
    /\ pc' = "idle" /\ tool' = "none" /\ args' = <<>> /\ gate' = FALSE /\ conv' = <<>>
    /\ built' = FALSE /\ calls' = <<>> /\ http' = 0 /\ result' = NoResult /\ path' = "none"
    /\ UNCHANGED <<enabled, retry_attempts, loop_vars>>

EnableFeature ==
    /\ \E f \in Features \ enabled : enabled' = enabled \cup {f}
    /\ UNCHANGED <<retry_attempts, pc, tool, args, gate, conv, built, calls, http, result, path, loop_vars>>

DisableFeature ==
    /\ \E f \in enabled : enabled' = enabled \ {f}
    /\ UNCHANGED <<retry_attempts, pc, tool, args, gate, conv, built, calls, http, result, path, loop_vars>>

Next ==
    \/ CreateActivity
    \/ CreatePerson
    \/ UpdatePerson
    \/ UpdateDeal
    \/ CreateActivityType
    \/ SearchItems
    \/ SearchField
    \/ UpdateActivity
    \/ GetDeal
    \/ AddProduct
    \/ DeleteLead
    \/ UpdateLead
    \/ CreateLead
    \/ ListLeads
    \/ UpdateProduct
    \/ ClientRaises
    \/ HttpExchange
    \/ Finish
    \/ EnableFeature
    \/ DisableFeature

Spec == Init /\ [][Next]_vars

(*************************** PipedriveClient._request on one response ****)
\* PipedriveAPIError(message, status_code, error_info, response_data)
PipedriveAPIError(message, status_code, error_info, response_data) ==
    [k |-> "api_error", message |-> message, status_code |-> status_code,
     error_info |-> error_info, response_data |-> response_data]

\* PipedriveAPIError.__str__
PipedriveAPIError_str(e) ==
    <<"PipedriveAPIError: ">> \o e.message
    \o When(~IsNone(e.status_code), <<"Status: ", ToString(e.status_code.v)>>)
    \o When(Truthy(e.error_info), <<"Info: ">> \o e.error_info.v)
    \o When(~IsNone(e.response_data), <<"Response Data Keys: ", "keys">>)

\* JSON bodies: an object is a function from its keys, a body may also be
\* an array or no JSON at all
Dict(f) == [t |-> "dict", v |-> f]
NotJson == [t |-> "text", v |-> <<"raw">>]
JsonList == List(<<>>)
Get(d, key, default) == IF key \in DOMAIN d.v THEN d.v[key] ELSE default
ApiErrorText == S(<<"API Error">>)
AdditionalInfo == S(<<"Additional info">>)

\* response.raise_for_status() raises HTTPStatusError
is_error_status(status) == status >= 400

\* the try block (lines 84-124) for a response: what it returns or raises
request_try(x) ==
    IF x.k = "request_error" THEN OtherError("RequestError")
    ELSE IF is_error_status(x.status) THEN OtherError("HTTPStatusError")
    ELSE IF x.body = NotJson THEN OtherError("JSONDecodeError")
    ELSE IF x.body.t # "dict" THEN OtherError("AttributeError")
    ELSE IF ~Truthy(Get(x.body, "success", None))
    THEN PipedriveAPIError(Get(x.body, "error", S(<<"Unknown Pipedrive API error">>)).v,
                           I(x.status), Get(x.body, "error_info", Empty), x.body)
    ELSE Returned(x.body)

\* the except clauses (lines 126-157) applied to what the try block raised
PipedriveClient_request(x) ==
    LET r == request_try(x)
    IN IF r = OtherError("HTTPStatusError")
       THEN (IF x.body = NotJson
             THEN PipedriveAPIError(<<"HTTP error ", ToString(x.status), ": ", "HTTPStatusError">>,
                                    I(x.status), S(<<"Response body was not valid JSON.">>),
                                    Dict([raw_error |-> x.body]))
             \* .get on a JSON array raises inside the except clause
             ELSE IF x.body.t # "dict" THEN OtherError("AttributeError")
             ELSE PipedriveAPIError(<<"HTTP error ", ToString(x.status), ": ">>
                                      \o Get(x.body, "error", S(<<"HTTPStatusError">>)).v,
                                    I(x.status), Get(x.body, "error_info", Empty),
                                    IF DOMAIN x.body.v # {} THEN x.body
                                    ELSE Dict([raw_error |-> x.body])))
       ELSE IF r = OtherError("RequestError")
       THEN PipedriveAPIError(<<"Request failed: ", "RequestError">>, None, None, None)
       ELSE IF r.k = "error"
       THEN PipedriveAPIError(<<"An unexpected error occurred in _request: ", r.name>>,
                              None, None, None)
       \* the PipedriveAPIError raised in the try block is an Exception too
       ELSE IF r.k = "api_error"
       THEN PipedriveAPIError(<<"An unexpected error occurred in _request: ">>
                                \o PipedriveAPIError_str(r), None, None, None)
       ELSE r

ResponseStatuses == {200, 201, 400, 404, 500}
JsonObjects ==
    {Dict(f) : f \in UNION {[K -> {Bool(TRUE), Bool(FALSE), ApiErrorText, AdditionalInfo}] :
                              K \in SUBSET {"success", "error", "error_info"}}}
ResponseBodies ==
    {b \in JsonObjects :
        /\ "success" \in DOMAIN b.v => b.v["success"].t = "bool"
        /\ "error" \in DOMAIN b.v => b.v["error"] = ApiErrorText
        /\ "error_info" \in DOMAIN b.v => b.v["error_info"] = AdditionalInfo}
    \cup {NotJson, JsonList}
Exchanges ==
    {[k |-> "response", status |-> st, body |-> b] : st \in ResponseStatuses, b \in ResponseBodies}
    \cup {[k |-> "request_error"]}

RequestInit ==
    /\ enabled = Features /\ retry_attempts \in RetryChoices
    /\ pc = "idle" /\ tool = "_request"
    /\ args \in Exchanges
    /\ gate = FALSE /\ conv = <<>> /\ built = FALSE /\ calls = <<>> /\ http = 0
    /\ result = NoResult /\ path = "none" /\ NoLoop

\* one call of _request whose HTTP exchange is the drawn one
Request ==
    /\ pc = "idle" /\ tool = "_request"
    /\ http' = 1
    /\ result' = [kind |-> "request", obj |-> PipedriveClient_request(args)]
    /\ pc' = "returned"
    /\ UNCHANGED <<enabled, retry_attempts, tool, args, gate, conv, built, calls, path, loop_vars>>

RequestNext == Request

SpecRequest == RequestInit /\ [][RequestNext]_vars

(*************************** agentic loops ********************************)
MaxIterations == 2
MarkerPassed == "VALIDATION: PASSED"
MarkerFailed == "VALIDATION: FAILED"
PrUrl == "https://github.com/o/r/pull/1"

\* how an agent process can end: exit status 0 with some stdout, a non-zero
\* exit status, the timeout, or a failure to run the command at all
Stdouts ==
    {<<>>, <<" ">>, <<"report">>, <<"report", MarkerPassed>>, <<"report", MarkerFailed>>,
     <<"report", PrUrl>>}
Exit0(stdout) == [exit |-> "exit0", stdout |-> stdout]
NonZero == [exit |-> "nonzero", stdout |-> <<>>]
TimedOut == [exit |-> "timeout", stdout |-> <<>>]
OsError == [exit |-> "oserror", stdout |-> <<>>]
\* subprocess.run without timeout= never raises TimeoutExpired
AgentOutcomes(loop) ==
    {Exit0(q) : q \in Stdouts} \cup {NonZero}
    \cup (IF loop = "AgenticReviewLoop" THEN {TimedOut, OsError} ELSE {})

\* what a phase method did: whether it ran its agent, what it returned and
\* which report files exist afterwards
Phase(ran, returned, fs) == [ran |-> ran, returned |-> returned, files |-> fs]

(* agentic_loop.py *)
_run_claude_with_prompt(o) == IF o.exit = "exit0" THEN S(o.stdout) ELSE None

_run_reviewer(o, fs) ==
    IF Truthy(_run_claude_with_prompt(o)) THEN Phase(TRUE, <<TRUE>>, fs \cup {"review"})
    ELSE Phase(TRUE, <<FALSE>>, fs)

_run_developer(o, fs) ==
    IF "review" \notin fs THEN Phase(FALSE, <<FALSE>>, fs)
    ELSE IF Truthy(_run_claude_with_prompt(o))
    THEN Phase(TRUE, <<TRUE>>, fs \cup {"development_plan"})
    ELSE Phase(TRUE, <<FALSE>>, fs)

_run_validator(o, fs) ==
    IF "review" \notin fs \/ "development_plan" \notin fs THEN Phase(FALSE, <<FALSE, FALSE>>, fs)
    ELSE LET output == _run_claude_with_prompt(o)
         IN IF Truthy(output)
            THEN Phase(TRUE, <<TRUE, Contains(output, MarkerPassed)>>, fs \cup {"validation"})
            ELSE Phase(TRUE, <<FALSE, FALSE>>, fs)

_run_pr_manager(o, fs) ==
    IF ~({"review", "development_plan", "validation"} \subseteq fs) THEN Phase(FALSE, <<FALSE>>, fs)
    ELSE IF Truthy(_run_claude_with_prompt(o)) THEN Phase(TRUE, <<TRUE>>, fs \cup {"pr"})
    ELSE Phase(TRUE, <<FALSE>>, fs)

(* agentic_review_loop.py *)
MAX_DIRECT_PROMPT_LENGTH == 8000
\* the prompts: the text that matters here, the length of the template and
\* the number of report file paths substituted into it
ReviewPrompt(role) ==
    CASE role = "reviewer" -> [text |-> <<"review the changes">>, template |-> 1122, paths |-> 0]
      [] role = "developer" -> [text |-> <<"implement the fixes">>, template |-> 1394, paths |-> 1]
      [] role = "validator" ->
           [text |-> <<"Your validation report must end with ONE of these lines exactly as shown:",
                       "- ", MarkerPassed, " (if all critical and high issues are fixed with no new issues)",
                       "- ", MarkerFailed, " (if any critical/high issues remain or new issues were introduced)">>,
            template |-> 1721, paths |-> 2]
      [] role = "pr_manager" ->
           [text |-> <<"2. Only proceed if validation shows \"", MarkerPassed, "\"">>,
            template |-> 2007, paths |-> 3]
\* len(prompt), for report files in a directory whose path has dir_length characters
prompt_length(prompt, dir_length) == prompt.template + prompt.paths * (dir_length + 14)

\* shlex.quote(text)
shlex_quote(text) == <<"'">> \o text \o <<"'">>
\* the command line of the agent
claude_cmd(prompt, dir_length) ==
    <<"claude", "--output-format", "text">>
    \o (IF prompt_length(prompt, dir_length) > MAX_DIRECT_PROMPT_LENGTH
        THEN <<"-f", "prompt_file">>
        ELSE <<"-p">> \o shlex_quote(prompt.text))
    \o <<"--allowedTools", "tools">>
\* str(CalledProcessError): the message quotes the command
CalledProcessError_str(cmd) ==
    <<"Command '">> \o cmd \o <<"' returned non-zero exit status ", "1", ".">>

\* run_claude: always returns a report text
run_claude(role, o, dir_length) ==
    LET head == <<"# ", role, " Report">>
    IN CASE o.exit = "exit0" ->
              IF Strip(o.stdout) = <<>> THEN head \o <<"No content was returned from Claude.">>
              ELSE o.stdout
         [] o.exit = "timeout" -> head \o <<"The agent timed out after ", "timeout", " seconds.">>
         [] o.exit = "nonzero" ->
              head \o <<"An error occurred: ">>
                   \o CalledProcessError_str(claude_cmd(ReviewPrompt(role), dir_length))
         [] OTHER -> head \o <<"An unexpected error occurred: ", "OSError">>

run_reviewer(o, fs, dir_length) ==
    Phase(TRUE, <<Len(Strip(run_claude("reviewer", o, dir_length))) > 0>>, fs \cup {"review"})

run_developer(o, fs, dir_length) ==
    IF "review" \notin fs THEN Phase(FALSE, <<FALSE>>, fs)
    ELSE Phase(TRUE, <<Len(Strip(run_claude("developer", o, dir_length))) > 0>>,
               fs \cup {"dev_report"})

run_validator(o, fs, dir_length) ==
    IF "review" \notin fs \/ "dev_report" \notin fs THEN Phase(FALSE, <<FALSE, FALSE>>, fs)
    ELSE LET output == run_claude("validator", o, dir_length)
         IN Phase(TRUE, <<Len(Strip(output)) > 0, Contains(S(output), MarkerPassed)>>,
                  fs \cup {"validation"})

run_pr_manager(o, fs, dir_length, skip_pr) ==
    IF "validation" \notin fs \/ skip_pr THEN Phase(FALSE, <<FALSE>>, fs)
    ELSE Phase(TRUE, <<Contains(S(run_claude("pr_manager", o, dir_length)), PrUrl)>>,
               fs \cup {"pr"})

\* the phase methods of either loop
RunPhase(loop, role, o, fs, a) ==
    IF loop = "AgenticLoop"
    THEN CASE role = "reviewer" -> _run_reviewer(o, fs)
           [] role = "developer" -> _run_developer(o, fs)
           [] role = "validator" -> _run_validator(o, fs)
           [] OTHER -> _run_pr_manager(o, fs)
    ELSE CASE role = "reviewer" -> run_reviewer(o, fs, a.dir_length)
           [] role = "developer" -> run_developer(o, fs, a.dir_length)
           [] role = "validator" -> run_validator(o, fs, a.dir_length)
           [] OTHER -> run_pr_manager(o, fs, a.dir_length, a.skip_pr)

Loops == {"AgenticLoop", "AgenticReviewLoop"}
DirLengths == {20, 4000}
LoopConfigs(loop) ==
    {[max_iterations |-> n, skip_pr |-> sk, dir_length |-> d] :
        n \in 0..MaxIterations,
        sk \in IF loop = "AgenticReviewLoop" THEN BOOLEAN ELSE {FALSE},
        d \in DirLengths}

LoopInit ==
    /\ enabled = Features /\ retry_attempts = 0
    /\ tool \in Loops /\ args \in LoopConfigs(tool)
    /\ pc = "start"
    /\ gate = FALSE /\ conv = <<>> /\ built = FALSE /\ calls = <<>> /\ http = 0
    /\ result = NoResult /\ path = "none" /\ NoLoop

loop_frame == <<enabled, retry_attempts, tool, args, gate, conv, built, http, path>>

\* run() up to the while statement
StartRun ==
    /\ pc = "start"
    /\ validation_passed' = IF tool = "AgenticReviewLoop" THEN Bool(FALSE) ELSE Unbound
    /\ pc' = "while"
    /\ UNCHANGED <<loop_frame, calls, result, iteration, files, agent>>

\* a loop test that lets one more iteration start
WhileTest_off_by_one ==
    /\ pc = "while"
    /\ IF iteration <= args.max_iterations
       THEN iteration' = iteration + 1 /\ pc' = "review"
       ELSE iteration' = iteration /\ pc' = "after"
    /\ UNCHANGED <<loop_frame, calls, result, validation_passed, files, agent>>

\* while self.iteration < self.max_iterations: self.iteration += 1
WhileTest ==
    /\ pc = "while"
    /\ IF iteration < args.max_iterations
       THEN iteration' = iteration + 1 /\ pc' = "review"
       ELSE iteration' = iteration /\ pc' = "after"
    /\ UNCHANGED <<loop_frame, calls, result, validation_passed, files, agent>>

\* a phase method is called; the agent process, if the method runs it, ends
\* in one of the ways it can
PhaseStep(role, o) ==
    LET r == RunPhase(tool, role, o, files, args)
    IN /\ calls' = Append(calls, [method |-> role,
                                  payload |-> [iteration |-> iteration, ran |-> r.ran,
                                               returned |-> r.returned]])
       /\ files' = r.files
       /\ agent' = IF r.ran THEN [role |-> role, exit |-> o.exit, stdout |-> o.stdout] ELSE agent

RunReviewer ==
    /\ pc = "review"
    /\ \E o \in AgentOutcomes(tool) :
         /\ PhaseStep("reviewer", o)
         /\ pc' = IF RunPhase(tool, "reviewer", o, files, args).returned[1]
                  THEN "develop" ELSE "after"
    /\ UNCHANGED <<loop_frame, result, iteration, validation_passed>>

RunDeveloper ==
    /\ pc = "develop"
    /\ \E o \in AgentOutcomes(tool) :
         /\ PhaseStep("developer", o)
         /\ pc' = IF RunPhase(tool, "developer", o, files, args).returned[1]
                  THEN "validate" ELSE "after"
    /\ UNCHANGED <<loop_frame, result, iteration, validation_passed>>

\* a validator step that goes on to the PR phase whatever was reported
RunValidator_pr_always ==
    /\ pc = "validate"
    /\ \E o \in AgentOutcomes(tool) :
         LET returned == RunPhase(tool, "validator", o, files, args).returned
         IN /\ PhaseStep("validator", o)
            /\ validation_passed' = Bool(returned[2])
            /\ pc' = IF ~returned[1] THEN "after" ELSE "pr"
    /\ UNCHANGED <<loop_frame, result, iteration>>

RunValidator ==
    /\ pc = "validate"
    /\ \E o \in AgentOutcomes(tool) :
         LET returned == RunPhase(tool, "validator", o, files, args).returned
         IN /\ PhaseStep("validator", o)
            /\ validation_passed' = Bool(returned[2])
            /\ pc' = IF ~returned[1] THEN "after"
                     ELSE IF ~returned[2] THEN "while"
                     ELSE IF tool = "AgenticReviewLoop" /\ args.skip_pr THEN "after"
                     ELSE "pr"
    /\ UNCHANGED <<loop_frame, result, iteration>>

RunPrManager ==
    /\ pc = "pr"
    /\ \E o \in AgentOutcomes(tool) : PhaseStep("pr_manager", o)
    /\ pc' = "after"
    /\ UNCHANGED <<loop_frame, result, iteration, validation_passed>>

\* what run() does after the loop: the check for the log line, then return
run_result(loop, it, max_iterations, passed) ==
    IF loop = "AgenticLoop"
    THEN IF it = max_iterations /\ passed = Unbound THEN Raised(Exc("UnboundLocalError"))
         ELSE [kind |-> "return", obj |-> IF passed = Unbound THEN Bool(FALSE) ELSE passed]
    ELSE [kind |-> "return", obj |-> passed]

ReturnResult ==
    /\ pc = "after"
    /\ result' = run_result(tool, iteration, args.max_iterations, validation_passed)
    /\ pc' = "returned"
    /\ UNCHANGED <<loop_frame, calls, iteration, validation_passed, files, agent>>

LoopNext ==
    \/ StartRun
    \/ WhileTest
    \/ RunReviewer
    \/ RunDeveloper
    \/ RunValidator
    \/ RunPrManager
    \/ ReturnResult

SpecLoop == LoopInit /\ [][LoopNext]_vars

\* run() is sequential code: it goes on as long as it has a next statement,
\* provided every agent process it waits for ends
SpecLoopFair == SpecLoop /\ WF_vars(LoopNext)

(*************************** conversion helper applied to strings *******)
ConvAlphabet == {"0", "5", "-", "+", " ", "a", "_"}
StringsUpTo(n) == UNION {[1..k -> ConvAlphabet] : k \in 0..n}
FieldNames == {"deal_id", "person_id"}
IdStrings == {None} \cup {S(q) : q \in StringsUpTo(MaxLen)}

ConvInit ==
    /\ enabled = Features /\ retry_attempts \in RetryChoices
    /\ pc = "idle" /\ tool = "convert_id_string"
    /\ args \in {[id_str |-> x, field_name |-> f] : x \in IdStrings, f \in FieldNames}
    /\ gate = FALSE /\ conv = <<>> /\ built = FALSE /\ calls = <<>> /\ http = 0
    /\ result = NoResult /\ path = "none" /\ NoLoop

\* one application of convert_id_string to the drawn input
ConvertIdString ==
    /\ pc = "idle" /\ tool = "convert_id_string"
    /\ result' = [kind |-> "pair", obj |-> convert_id_string(args.id_str, args.field_name, "123")]
    /\ pc' = "returned"
    /\ UNCHANGED <<enabled, retry_attempts, tool, args, gate, conv, built, calls, http, path, loop_vars>>

ConvNext == ConvertIdString

SpecConv == ConvInit /\ [][ConvNext]_vars

(*************************** the four helpers applied to strings *********)
\* the strings obtained from a well-formed one by one edit: a character
\* replaced, the last one dropped, one added in front or at the end
Edits(base, chars) ==
    {base, SubSeq(base, 1, Len(base) - 1)}
    \cup {[base EXCEPT ![i] = c] : i \in 1..Len(base), c \in chars}
    \cup {base \o <<c>> : c \in chars}
    \cup {<<c>> \o base : c \in chars}

UuidMixed == UuidUpper.v
UuidLower == Lower(UuidUpper.v)
UuidEditChars == {"g", "-", "0", "F", " ", "\n", "{"}
UuidStrings ==
    {None, Empty, Blank}
    \cup {S(q) : q \in Edits(UuidLower, UuidEditChars) \cup Edits(UuidMixed, UuidEditChars)}

Time143000 == <<"1", "4", ":", "3", "0", ":", "0", "0">>
Time250000 == <<"2", "5", ":", "0", "0", ":", "0", "0">>
TimeEditChars == {"a", ":", "9", "6", " ", "\n"}
TimeStrings ==
    {None, Empty, Blank}
    \cup {S(q) : q \in Edits(Time143000, TimeEditChars) \cup Edits(Time250000, TimeEditChars)}

DateEditChars == {"a", "-", "9", "/", " ", "\n"}
DateStrings ==
    {None, Empty, Blank} \cup {S(q) : q \in Edits(Date20250115.v, DateEditChars)}

HelperInit ==
    /\ enabled = Features /\ retry_attempts \in RetryChoices
    /\ pc = "idle"
    /\ \/ /\ tool = "convert_id_string"
          /\ args \in {[id_str |-> x, field_name |-> f] : x \in IdStrings, f \in FieldNames}
       \/ /\ tool = "validate_uuid_string"
          /\ args \in {[uuid_str |-> x, field_name |-> f] : x \in UuidStrings, f \in FieldNames}
       \/ /\ tool = "validate_date_string"
          /\ args \in {[date_str |-> x, field_name |-> f] : x \in DateStrings, f \in FieldNames}
       \/ /\ tool = "validate_time_string"
          /\ args \in {[time_str |-> x, field_name |-> f] : x \in TimeStrings, f \in FieldNames}
    /\ gate = FALSE /\ conv = <<>> /\ built = FALSE /\ calls = <<>> /\ http = 0
    /\ result = NoResult /\ path = "none" /\ NoLoop

Pair(p) == [kind |-> "pair", obj |-> p]

\* one application of validate_uuid_string to the drawn input
ValidateUuidString ==
    /\ pc = "idle" /\ tool = "validate_uuid_string"
    /\ result' = Pair(validate_uuid_string(args.uuid_str, args.field_name, UuidExample[1]))
    /\ pc' = "returned"
    /\ UNCHANGED <<enabled, retry_attempts, tool, args, gate, conv, built, calls, http, path, loop_vars>>

\* validate_uuid_string applied to the value it returned
ValidateUuidAgain ==
    /\ pc = "returned" /\ tool = "validate_uuid_string" /\ ~IsNone(result.obj[1])
    /\ args' = [args EXCEPT !.uuid_str = result.obj[1]]
    /\ result' = Pair(validate_uuid_string(result.obj[1], args.field_name, UuidExample[1]))
    /\ pc' = "again"
    /\ UNCHANGED <<enabled, retry_attempts, tool, gate, conv, built, calls, http, path, loop_vars>>

ValidateDateString ==
    /\ pc = "idle" /\ tool = "validate_date_string"
    /\ result' = Pair(validate_date_string(args.date_str, args.field_name, "YYYY-MM-DD", "2025-01-15"))
    /\ pc' = "returned"
    /\ UNCHANGED <<enabled, retry_attempts, tool, args, gate, conv, built, calls, http, path, loop_vars>>

ValidateTimeString ==
    /\ pc = "idle" /\ tool = "validate_time_string"
    /\ result' = Pair(validate_time_string(args.time_str, args.field_name, "HH:MM:SS", "14:30:00"))
    /\ pc' = "returned"
    /\ UNCHANGED <<enabled, retry_attempts, tool, args, gate, conv, built, calls, http, path, loop_vars>>

HelperNext ==
    \/ ConvertIdString
    \/ ValidateUuidString
    \/ ValidateUuidAgain
    \/ ValidateDateString
    \/ ValidateTimeString

SpecHelper == HelperInit /\ [][HelperNext]_vars

(*************************** entity models constructed *******************)
Model(obj) == [kind |-> "model", obj |-> obj]

Time0130 == <<"0", "1", ":", "3", "0">>
Time130 == <<"1", ":", "3", "0">>
Time13045 == <<"1", ":", "3", "0", ":", "4", "5">>
ClockEditChars == {"2", "6", ":", " ", "a", ArabicThree}
ClockStrings ==
    {Empty, Blank}
    \cup {S(q) : q \in Edits(Time143000, ClockEditChars) \cup Edits(Time250000, ClockEditChars)
                       \cup Edits(Time0130, ClockEditChars) \cup Edits(Time130, ClockEditChars)
                       \cup Edits(Time13045, ClockEditChars)}
NamePadded == S(<<" ", "C", "a", "l", "l", " ">>)

ActivityBaseline ==
    [subject |-> NameC, type |-> TypeCall, due_date |-> None, due_time |-> None,
     duration |-> None, owner_id |-> None, lead_id |-> None, priority |-> None,
     id |-> None]
ActivityKwargs ==
    Calls(ActivityBaseline,
          [subject |-> {Empty, Blank, NamePadded}, type |-> {Blank, NamePadded},
           due_date |-> {Date20250115, Date20250230, Blank},
           due_time |-> {S(Time143000), S(Time0130), Letters},
           duration |-> {S(Time130), S(Time250000)},
           owner_id |-> {I(5), I(0)}, lead_id |-> {UuidUpper, UuidBad},
           priority |-> {I(5), I(1000)}, id |-> {I(9), I(0)}])
    \cup {[ActivityBaseline EXCEPT !.due_time = t] : t \in ClockStrings}
    \cup {[ActivityBaseline EXCEPT !.duration = t] : t \in ClockStrings}
    \cup {[ActivityBaseline EXCEPT !.due_time = t, !.duration = t] : t \in ClockStrings}

\* the keyword arguments that are given
Given(kw) == [f \in {g \in DOMAIN kw : kw[g] # Missing} |-> kw[f]]

CurrencyLower == S(<<"u", "s", "d">>)
CurrencyShort == S(<<"U", "S">>)
CurrencyUnlisted == S(<<"x", "y", "z">>)
CurrencySymbol == S(<<"U", "$", "D">>)
StatusUpper == S(<<"L", "O", "S", "T">>)
StatusWon == S(<<"w", "o", "n">>)
DealBaseline ==
    [title |-> NameC, value |-> Missing, currency |-> Missing, person_id |-> Missing,
     org_id |-> Missing, status |-> Missing, owner_id |-> Missing, stage_id |-> Missing,
     pipeline_id |-> Missing, expected_close_date |-> Missing, visible_to |-> Missing,
     probability |-> Missing, lost_reason |-> Missing, id |-> Missing]
DealKwargs ==
    Calls(DealBaseline,
          [title |-> {Missing, Empty, NamePadded}, value |-> {F(100), F(0 - 1), None},
           currency |-> {Empty, CurrencyLower, CurrencyShort, CurrencyUnlisted, CurrencySymbol},
           person_id |-> {I(5), I(0)}, org_id |-> {I(0)},
           status |-> {StatusOpen, StatusLost, StatusUpper, StatusWon, StatusBad, Empty},
           owner_id |-> {I(7)}, stage_id |-> {I(0)}, pipeline_id |-> {I(1)},
           expected_close_date |-> {Date20250115, Letters}, visible_to |-> {I(3)},
           probability |-> {I(50), I(101)}, lost_reason |-> {None, Empty, ReasonText},
           id |-> {I(9), I(0)}])

DealProductBaseline ==
    [product_id |-> I(7), item_price |-> F(100), quantity |-> I(5), discount |-> Missing,
     tax |-> Missing, comments |-> Missing, currency |-> Missing, discount_type |-> Missing,
     tax_method |-> Missing, is_enabled |-> Missing, product_variation_id |-> Missing,
     billing_frequency |-> Missing, billing_frequency_cycles |-> Missing,
     billing_start_date |-> Missing, deal_id |-> Missing, id |-> Missing]
DealProductKwargs ==
    Calls(DealProductBaseline,
          [product_id |-> {Missing}, item_price |-> {F(0), NaN, Missing},
           quantity |-> {I(0), None}, discount |-> {F(10), F(0 - 1)}, tax |-> {F(0 - 1)},
           comments |-> {ReasonText}, currency |-> {None}, discount_type |-> {Letters},
           tax_method |-> {Letters}, is_enabled |-> {Bool(FALSE)},
           product_variation_id |-> {I(3)}, billing_frequency |-> {Weekly, Letters},
           billing_frequency_cycles |-> {I(5), I(209)},
           billing_start_date |-> {Date20250115}, deal_id |-> {I(5)}, id |-> {I(9)}])

AddressText == S(<<"a", "d", "d", "r">>)
OrganizationBaseline ==
    [name |-> NameC, owner_id |-> Missing, address |-> Missing, visible_to |-> Missing,
     id |-> Missing, label_ids |-> Missing]
OrganizationKwargs ==
    Calls(OrganizationBaseline,
          [name |-> {Missing, None, Empty, Blank, NamePadded}, owner_id |-> {I(5), None},
           address |-> {AddressText, Empty}, visible_to |-> {I(3), I(5), I(0)},
           id |-> {I(9), None}, label_ids |-> {List(<<I(1), I(2)>>), None}])
MailText == S(<<"a", "@", "b">>)
WorkLabel == S(<<"w", "o", "r", "k">>)
PersonBaseline ==
    [name |-> NameC, owner_id |-> Missing, org_id |-> Missing, emails |-> Missing,
     phones |-> Missing, visible_to |-> Missing, id |-> Missing]
PersonKwargs ==
    Calls(PersonBaseline,
          [name |-> {Missing, None, Empty, Blank}, owner_id |-> {I(5), None},
           org_id |-> {I(7)},
           emails |-> {List(<<Email(MailText, WorkLabel, Bool(TRUE))>>), List(<<>>)},
           phones |-> {List(<<Email(Five, WorkLabel, Bool(FALSE))>>)},
           visible_to |-> {I(3)}, id |-> {I(9), None}])

EntityInit ==
    /\ enabled = Features /\ retry_attempts \in RetryChoices
    /\ pc = "idle"
    /\ \/ tool = "Activity" /\ args \in ActivityKwargs
       \/ tool = "Deal" /\ args \in DealKwargs
       \/ tool = "DealProduct" /\ args \in DealProductKwargs
       \/ tool = "Organization" /\ args \in OrganizationKwargs
       \/ tool = "Person" /\ args \in PersonKwargs
    /\ gate = FALSE /\ conv = <<>> /\ built = FALSE /\ calls = <<>> /\ http = 0
    /\ result = NoResult /\ path = "none" /\ NoLoop

\* Activity(**kwargs)
ConstructActivity ==
    /\ pc = "idle" /\ tool = "Activity"
    /\ LET model == Activity(args)
       IN /\ built' = model.ok
          /\ result' = IF model.ok THEN Model(model.obj)
                       ELSE Raised(ValidationError("fields", model.fields))
    /\ pc' = "returned"
    /\ UNCHANGED <<enabled, retry_attempts, tool, args, gate, conv, calls, http, path, loop_vars>>

\* activity.to_api_dict()
ActivityToApiDict ==
    /\ pc = "returned" /\ tool = "Activity" /\ built
    /\ calls' = <<[method |-> "to_api_dict", payload |-> Activity_to_api_dict(result.obj)]>>
    /\ pc' = "dumped"
    /\ UNCHANGED <<enabled, retry_attempts, tool, args, gate, conv, built, http, result, path, loop_vars>>

\* Deal(**kwargs)
ConstructDeal ==
    /\ pc = "idle" /\ tool = "Deal"
    /\ LET model == Deal(Given(args))
       IN /\ built' = model.ok
          /\ result' = IF model.ok THEN Model(model.obj) ELSE Raised(model.error)
    /\ pc' = "returned"
    /\ UNCHANGED <<enabled, retry_attempts, tool, args, gate, conv, calls, http, path, loop_vars>>

\* deal.to_api_dict()
DealToApiDict ==
    /\ pc = "returned" /\ tool = "Deal" /\ built
    /\ calls' = <<[method |-> "to_api_dict", payload |-> Deal_to_api_dict(result.obj)]>>
    /\ pc' = "dumped"
    /\ UNCHANGED <<enabled, retry_attempts, tool, args, gate, conv, built, http, result, path, loop_vars>>

\* DealProduct(**kwargs)
ConstructDealProduct ==
    /\ pc = "idle" /\ tool = "DealProduct"
    /\ LET model == DealProduct(Given(args))
       IN /\ built' = model.ok
          /\ result' = IF model.ok THEN Model(model.obj) ELSE Raised(model.error)
    /\ pc' = "returned"
    /\ UNCHANGED <<enabled, retry_attempts, tool, args, gate, conv, calls, http, path, loop_vars>>

\* deal_product.to_api_dict()
DealProductToApiDict ==
    /\ pc = "returned" /\ tool = "DealProduct" /\ built
    /\ calls' = <<[method |-> "to_api_dict", payload |-> DealProduct_to_api_dict(result.obj)]>>
    /\ pc' = "dumped"
    /\ UNCHANGED <<enabled, retry_attempts, tool, args, gate, conv, built, http, result, path, loop_vars>>

\* Organization(**kwargs)
ConstructOrganization ==
    /\ pc = "idle" /\ tool = "Organization"
    /\ LET model == Organization(Given(args))
       IN /\ built' = model.ok
          /\ result' = IF model.ok THEN Model(model.obj) ELSE Raised(model.error)
    /\ pc' = "returned"
    /\ UNCHANGED <<enabled, retry_attempts, tool, args, gate, conv, calls, http, path, loop_vars>>

\* organization.to_api_dict()
OrganizationToApiDict ==
    /\ pc = "returned" /\ tool = "Organization" /\ built
    /\ calls' = <<[method |-> "to_api_dict", payload |-> Organization_to_api_dict(result.obj)]>>
    /\ pc' = "dumped"
    /\ UNCHANGED <<enabled, retry_attempts, tool, args, gate, conv, built, http, result, path, loop_vars>>

\* Person(**kwargs)
ConstructPerson ==
    /\ pc = "idle" /\ tool = "Person"
    /\ LET model == Person(Given(args))
       IN /\ built' = model.ok
          /\ result' = IF model.ok THEN Model(model.obj) ELSE Raised(model.error)
    /\ pc' = "returned"
    /\ UNCHANGED <<enabled, retry_attempts, tool, args, gate, conv, calls, http, path, loop_vars>>

\* person.to_api_dict()
PersonToApiDict ==
    /\ pc = "returned" /\ tool = "Person" /\ built
    /\ calls' = <<[method |-> "to_api_dict", payload |-> Person_to_api_dict(result.obj)]>>
    /\ pc' = "dumped"
    /\ UNCHANGED <<enabled, retry_attempts, tool, args, gate, conv, built, http, result, path, loop_vars>>

EntityNext ==
    \/ ConstructActivity
    \/ ActivityToApiDict
    \/ ConstructDeal
    \/ DealToApiDict
    \/ ConstructDealProduct
    \/ DealProductToApiDict
    \/ ConstructOrganization
    \/ OrganizationToApiDict
    \/ ConstructPerson
    \/ PersonToApiDict

SpecEntity == EntityInit /\ [][EntityNext]_vars

(*************************** properties *********************************)
Done == pc = "returned"
IsEnvelope(r) == r.kind = "json" /\ DOMAIN r.obj = {"success", "data", "error"}
IsFailure(r) == r.kind = "json" /\ r.obj.success = FALSE

\* C1: every finished tool invocation, whatever its path (feature disabled
\* included), returned a JSON object with exactly the keys success, data and
\* error, and no exception escaped to the caller.
C1_UniformEnvelope == Done => IsEnvelope(result)

\* C2: an invocation that ended with a local validation failure (conversion
\* error, failed precondition, model validation error) has invoked no client
\* method.
C2_NoClientCallOnLocalFailure ==
    (Done /\ path \in {"conversion", "precondition", "validation"}) => calls = <<>>

StepsOf(t, a) ==
    CASE t = "create_activity_in_pipedrive" -> create_activity_steps(a)
      [] t = "update_deal_in_pipedrive" -> update_deal_steps(a)
      [] t = "update_person_in_pipedrive" -> update_person_steps(a)
      [] t = "update_lead_in_pipedrive" -> update_lead_steps(a)
      [] t = "create_lead_in_pipedrive" -> create_lead_steps(a)
      [] t = "list_leads_from_pipedrive" -> list_leads_steps(a)
      [] t = "add_product_to_deal_in_pipedrive" -> add_product_steps(a)
      [] t = "update_product_in_deal_in_pipedrive" -> update_product_steps(a)
      [] t = "update_activity_in_pipedrive" -> update_activity_steps(a)
      [] t = "search_item_field_in_pipedrive" -> search_field_steps(a)
      [] OTHER -> <<>>

\* the due_time values among the inputs that are well-formed ISO date-times
ValidDueTimes == {IsoDateTime}
\* the converted fields that are plain numbers rather than IDs, UUIDs, dates or times
NumberFields ==
    {"priority", "value", "probability", "item_price", "quantity", "tax", "discount",
     "billing_frequency_cycles", "pagination"}
\* the ID / UUID / date / time conversions of a call whose input is invalid
InvalidConversions(t, a) ==
    {i \in FailingSteps(StepsOf(t, a)) :
        /\ StepsOf(t, a)[i].kind = "conversion"
        /\ StepsOf(t, a)[i].f \notin NumberFields
        /\ ~(StepsOf(t, a)[i].f = "due_time" /\ a.due_time \in ValidDueTimes)}

\* C4: when several conversion inputs of a call are invalid and the first
\* failing step is one of them, the result is the failure envelope carrying
\* that first field's error; no later conversion, no model construction and
\* no client call took place.
C4_FirstInvalidFieldOnly ==
    (/\ Done /\ gate
     /\ Cardinality(InvalidConversions(tool, args)) >= 2
     /\ FirstFailure(StepsOf(tool, args)) \in InvalidConversions(tool, args))
    => LET steps == StepsOf(tool, args)
           i == FirstFailure(steps)
       IN /\ result = format_tool_response(FALSE, None, steps[i].err)
          /\ conv = ConvFieldsOf(SubSeq(steps, 1, i))
          /\ ~built /\ calls = <<>>

\* what a failed response can carry as data
ResponseData == {Obj("error_body"), Obj("raw_error"), Obj("error_details")}

\* C5: in a failure envelope the error is a non-empty string; data is
\* non-null only for a remote API failure whose response carried data, and
\* is null for validation failures and unexpected errors.
C5_FailureEnvelopeShape ==
    (Done /\ IsFailure(result))
    => /\ result.obj.error.t = "str" /\ result.obj.error.v # <<>>
       /\ ~IsNone(result.obj.data)
            => (path = "api" /\ http = 1 /\ result.obj.data \in ResponseData)
       /\ path \in {"conversion", "precondition", "validation", "value_error", "unexpected"}
            => IsNone(result.obj.data)

C5_Witness ==
    /\ Done /\ IsFailure(result) /\ tool = "update_deal_in_pipedrive"
    /\ path = "api" /\ result.obj.data = Obj("error_body")

\* an input value the handler itself recognises as invalid
NegativeNumber(x) == Truthy(x) /\ PyInt(x.v).ok /\ PyInt(x.v).v < 0
BadLimit(x) == Truthy(x) /\ (~PyInt(x.v).ok \/ PyInt(x.v).v < 1 \/ PyInt(x.v).v > MaxLimit)
DetectedFailure ==
    \/ path = "fallback"
    \/ gate /\ tool = "create_activity_type_in_pipedrive" /\ NegativeNumber(args.order_nr_str)
    \/ gate /\ tool = "search_items_in_pipedrive" /\ BadLimit(args.limit_str)

\* C6: no invocation in which an invalid input value or a processing failure
\* was detected returns success=true, and no invalid input is replaced by a
\* default and forwarded to the client.
C6_NoErrorDropped ==
    DetectedFailure => (calls = <<>> /\ (Done => IsFailure(result)))

UpdateTools ==
    {"update_person_in_pipedrive", "update_deal_in_pipedrive", "update_lead_in_pipedrive"}
UpdateFields(t, a) ==
    CASE t = "update_person_in_pipedrive" ->
           <<a.name, a.owner_id_str, a.org_id_str, a.email_address, a.phone_number,
             a.visible_to_str>>
      [] t = "update_deal_in_pipedrive" ->
           <<a.title, a.value, a.currency, a.person_id_str, a.org_id_str, a.status,
             a.owner_id_str, a.stage_id_str, a.pipeline_id_str, a.expected_close_date,
             a.visible_to_str, a.probability, a.lost_reason>>
      [] t = "update_lead_in_pipedrive" ->
           <<a.title, a.value, a.currency, a.person_id, a.organization_id, a.owner_id,
             a.label_ids, a.expected_close_date, a.visible_to, a.is_archived, a.was_seen>>
AllBlankOrAbsent(values) == \A i \in 1..Len(values) : BlankOrNone(values[i])

\* C8: an update tool called with every update field absent or blank returns
\* a failure envelope and does not call the remote update.
C8_UpdateNeedsField ==
    (tool \in UpdateTools /\ AllBlankOrAbsent(UpdateFields(tool, args)))
    => (calls = <<>> /\ (Done => IsFailure(result)))

PositiveIdInput(x) == ~IsNone(x) /\ PyInt(x.v).ok /\ PyInt(x.v).v > 0
PositiveInt(x) == x.t = "int" /\ x.v > 0

\* C9: create-lead with neither person_id nor organization_id converting to
\* a positive integer returns a failure envelope without calling
\* create_lead; whenever create_lead is called one of the two IDs it is
\* given is a positive integer.
C9_LeadNeedsPersonOrOrganization ==
    tool = "create_lead_in_pipedrive"
    => /\ (~PositiveIdInput(args.person_id) /\ ~PositiveIdInput(args.organization_id))
            => (calls = <<>> /\ (Done => IsFailure(result)))
       /\ calls # <<>>
            => /\ calls[1].method = "create_lead"
               /\ \/ PositiveInt(calls[1].payload.person_id)
                  \/ PositiveInt(calls[1].payload.organization_id)

C9_Witness ==
    /\ Done /\ tool = "create_lead_in_pipedrive" /\ IsFailure(result) /\ calls = <<>>
    /\ args.person_id = Zero /\ args.organization_id = Blank /\ path = "conversion"

\* the plain decimal form of a positive integer: digits only
DecimalPositive(x) ==
    /\ ~IsNone(x) /\ x.v # <<>>
    /\ \A i \in 1..Len(x.v) : x.v[i] \in Digits
    /\ DigitsValue(x.v, 0) > 0
\* a string Python's int() reads as a positive integer
IntPositive(x) == ~IsNone(x) /\ PyInt(x.v).ok /\ PyInt(x.v).v > 0

\* C10 as stated: digits-only positive -> (int(s), None); None, "" and
\* whitespace-only -> (None, None); every other s -> (None, e), e naming f.
C10_AsStated ==
    (Done /\ tool = "convert_id_string")
    => LET x == args.id_str
           r == result.obj
       IN IF BlankOrNone(x) THEN r = <<None, None>>
          ELSE IF DecimalPositive(x) THEN r = <<I(DigitsValue(x.v, 0)), None>>
          ELSE IsNone(r[1]) /\ Contains(r[2], args.field_name)

\* C10: every string that int() reads as a positive integer (surrounding
\* whitespace, a leading sign and underscores between digits allowed) gives
\* (int(s), None); None, "" and whitespace-only give (None, None); every
\* other s gives (None, e) where e contains the field name.
C10_ConvertIdString ==
    (Done /\ tool = "convert_id_string")
    => LET x == args.id_str
           r == result.obj
       IN IF BlankOrNone(x) THEN r = <<None, None>>
          ELSE IF IntPositive(x) THEN r = <<I(PyInt(x.v).v), None>>
          ELSE IsNone(r[1]) /\ Contains(r[2], args.field_name)

C10_Witness ==
    /\ Done /\ tool = "convert_id_string" /\ args.id_str = S(<<" ", "5">>)
    /\ result.obj = <<I(5), None>>

\* the 8-4-4-4-12 pattern of lower-case hex digits
IsLowerUuid(q) ==
    /\ Len(q) = 36
    /\ \A i \in 1..36 : IF i \in {9, 14, 19, 24} THEN q[i] = "-" ELSE q[i] \in HexLower
HelperDone(t) == tool = t /\ pc \in {"returned", "again"}

\* C11 as stated: a valid lower-case UUID is returned unchanged, a valid
\* upper- or mixed-case one in lower case, every string not matching the
\* 8-4-4-4-12 hex pattern gives (None, error), and a successful output
\* validates to itself.
C11_AsStated ==
    (HelperDone("validate_uuid_string") /\ ~IsNone(args.uuid_str))
    => LET x == args.uuid_str
           r == result.obj
       IN /\ IF IsLowerUuid(x.v) THEN r = <<x, None>>
             ELSE IF IsLowerUuid(Lower(x.v)) THEN r = <<S(Lower(x.v)), None>>
             ELSE IsNone(r[1]) /\ ~IsNone(r[2])
          /\ pc = "again" => r = <<x, None>>

\* C11: as above, except that an empty or whitespace-only string (like None)
\* gives (None, None); every other string not matching the 8-4-4-4-12 hex
\* pattern gives (None, error) with the field name in the error.
C11_ValidateUuidString ==
    HelperDone("validate_uuid_string")
    => LET x == args.uuid_str
           r == result.obj
       IN /\ IF BlankOrNone(x) THEN r = <<None, None>>
             ELSE IF IsLowerUuid(x.v) THEN r = <<x, None>>
             ELSE IF IsLowerUuid(Lower(x.v)) THEN r = <<S(Lower(x.v)), None>>
             ELSE IsNone(r[1]) /\ Contains(r[2], args.field_name)
          /\ pc = "again" => r = <<x, None>>

C11_Witness ==
    /\ pc = "again" /\ tool = "validate_uuid_string"
    /\ args.uuid_str = S(UuidLower) /\ result.obj = <<S(UuidLower), None>>

\* C12: each conversion helper, on every string-or-None input, returns a
\* (value, error) pair of which at most one component is not None; it does
\* not raise.
C12_PairNeverBoth ==
    (pc \in {"returned", "again"})
    => /\ result.kind = "pair"
       /\ Len(result.obj) = 2
       /\ IsNone(result.obj[1]) \/ IsNone(result.obj[2])

C12_Witness ==
    /\ HelperDone("validate_time_string") /\ args.time_str = S(Time250000)
    /\ IsNone(result.obj[1]) /\ Contains(result.obj[2], " contains invalid values. Hours (0-23), minutes (0-59), seconds (0-59). Example: '")

\* the parts of s between its colons
RECURSIVE SplitColon(_, _)
SplitColon(s, cur) ==
    IF s = <<>> THEN <<cur>>
    ELSE IF Head(s) = ":" THEN <<cur>> \o SplitColon(Tail(s), <<>>)
    ELSE SplitColon(Tail(s), Append(cur, Head(s)))
\* a number of n digits 0-9 not above max
Number(p, n, max) ==
    Len(p) = n /\ (\A i \in 1..n : p[i] \in Digits) /\ DigitsValue(p, 0) <= max
Pad2(p) == IF Len(p) = 1 THEN <<"0">> \o p ELSE p
\* what the duration forms H:MM, HH:MM, H:MM:SS and HH:MM:SS stand for;
\* <<>> for a string of none of these forms
DurationMeaning(s) ==
    LET P == SplitColon(s, <<>>)
    IN IF /\ Len(P) \in {2, 3}
          /\ Number(P[1], 1, 9) \/ Number(P[1], 2, 23)
          /\ \A i \in 2..Len(P) : Number(P[i], 2, 59)
       THEN Pad2(P[1]) \o <<":">> \o P[2] \o <<":">> \o (IF Len(P) = 3 THEN P[3] ELSE <<"0", "0">>)
       ELSE <<>>
\* HH:MM:SS with hour 00-23, minute and second 00-59
IsHHMMSS(s) ==
    LET P == SplitColon(s, <<>>)
    IN Len(P) = 3 /\ Number(P[1], 2, 23) /\ Number(P[2], 2, 59) /\ Number(P[3], 2, 59)

Constructed(t) == tool = t /\ pc \in {"returned", "dumped"}
Rejects(f) == result.kind = "raise" /\ f \in Range(result.obj.fields)

\* C13: a non-blank duration of one of the forms H:MM, HH:MM, H:MM:SS,
\* HH:MM:SS is stored as HH:MM:SS (hour padded with 0, seconds 00 added),
\* every other one (hour above 23 included) is rejected; a non-blank
\* due_time is stored unchanged when it is HH:MM:SS and rejected otherwise.
C13_DurationNormalized ==
    Constructed("Activity")
    => /\ NonBlank(args.duration)
            => LET want == DurationMeaning(Strip(args.duration.v))
               IN IF want = <<>> THEN Rejects("duration")
                  ELSE ~Rejects("duration") /\ (built => result.obj.duration = S(want))
       /\ NonBlank(args.due_time)
            => IF IsHHMMSS(Strip(args.due_time.v))
               THEN ~Rejects("due_time") /\ (built => result.obj.due_time = S(Strip(args.due_time.v)))
               ELSE Rejects("due_time")

Trimmed(x) == x.t = "str" /\ x.v # <<>> /\ Strip(x.v) = x.v

\* C14: a constructed Activity has a non-empty subject and type without
\* leading or trailing whitespace, and its due_time and duration are None
\* or HH:MM:SS with hour 00-23 and minute and second 00-59.
C14_ActivityInvariant ==
    (Constructed("Activity") /\ built)
    => /\ Trimmed(result.obj.subject)
       /\ Trimmed(result.obj.type)
       /\ IsNone(result.obj.due_time) \/ IsHHMMSS(result.obj.due_time.v)
       /\ IsNone(result.obj.duration) \/ IsHHMMSS(result.obj.duration.v)

ProductTools == {"add_product_to_deal_in_pipedrive", "update_product_in_deal_in_pipedrive"}
\* the product data a client call carries
ProductData(call) ==
    IF call.method = "add_product_to_deal" THEN call.payload.payload ELSE call.payload
Field(d, k) == IF k \in DOMAIN d THEN d[k] ELSE None
BillingRuleOk(d) ==
    LET frequency == Field(d, "billing_frequency")
        cycles == Field(d, "billing_frequency_cycles")
    IN /\ frequency = OneTime => IsNone(cycles)
       /\ frequency = Weekly => ~IsNone(cycles)
       /\ ~IsNone(cycles) => (cycles.v >= 1 /\ cycles.v <= MaxBillingCycles)

\* C15: the product data the add-product and update-product tools hand to
\* the client obeys the billing rule: no cycles with one-time, cycles with
\* weekly, and cycles, when given, within 1..208.
C15_BillingRule ==
    (tool \in ProductTools /\ calls # <<>>) => BillingRuleOk(ProductData(calls[1]))

Positive(x) == IF x.t = "float" THEN ~x.nan /\ x.v > 0 ELSE x.v > 0
NonNegative(x) == IF x.t = "float" THEN ~x.nan /\ x.v >= 0 ELSE x.v >= 0
RangesOk(d) ==
    /\ ~IsNone(Field(d, "item_price")) => Positive(d.item_price)
    /\ ~IsNone(Field(d, "quantity")) => Positive(d.quantity)
    /\ ~IsNone(Field(d, "discount")) => NonNegative(d.discount)
    /\ ~IsNone(Field(d, "tax")) => NonNegative(d.tax)

\* C16: the product data the add-product and update-product tools hand to
\* the client (for the add tool, the dump of a constructed DealProduct) has
\* item_price > 0, quantity > 0, discount >= 0 and tax >= 0.
C16_ProductRanges ==
    (tool \in ProductTools /\ calls # <<>>) => RangesOk(ProductData(calls[1]))

\* the status a Deal built from these keyword arguments has
DealStatusOf(g) ==
    IF "status" \in DOMAIN g /\ Truthy(g.status) THEN S(Lower(g.status.v)) ELSE StatusOpen
RejectedAfter == result.kind = "raise" /\ result.obj.stage = "after"

\* C17: constructing a Deal whose status is not "lost" with a lost_reason
\* that is not None fails, and a Deal with status "lost" and a lost_reason is
\* not rejected by the cross-field check.
C17_LostReasonNeedsLost ==
    Constructed("Deal")
    => LET g == Given(args)
           reason == Field(g, "lost_reason")
       IN /\ (DealStatusOf(g) # StatusLost /\ ~IsNone(reason)) => ~built
          /\ (DealStatusOf(g) = StatusLost /\ ~IsNone(reason)) => ~RejectedAfter

\* the fields of a Deal call that do not pass: a given value its validator
\* refuses, or a required field that is not given
DealFieldFailures(g) ==
    {f \in Range(DealFields) :
        IF f \in DOMAIN g THEN ~DealFieldValidator(f, g[f]).ok ELSE DealDefaults[f] = Missing}
DealProductFieldFailures(g) ==
    {f \in DealProductRequired : IF f \in DOMAIN g THEN IsNone(g[f]) ELSE DealProductDefaults[f] = Missing}
FailuresOf(t, g) ==
    IF t = "Deal" THEN SelectSeq(DealFields, LAMBDA f : f \in DealFieldFailures(g))
    ELSE SelectSeq(DealProductFields, LAMBDA f : f \in DealProductFieldFailures(g))
Refused(t) == Constructed(t) /\ result.kind = "raise"

Entities == {"Activity", "Deal", "DealProduct", "Organization", "Person"}
Dumped(t) == tool = t /\ pc = "dumped"
\* a field's value as the API takes it: a date as its ISO string
ApiValue(v) == IF v.t = "date" THEN S(v.v) ELSE v
ExactDump(d, obj, dropped) ==
    /\ DOMAIN d = {k \in DOMAIN obj : ~IsNone(obj[k])} \ dropped
    /\ \A k \in DOMAIN d : ~IsNone(d[k]) /\ d[k] = ApiValue(obj[k])

\* C19 as stated: the dump of every entity model is exactly its non-None
\* fields without id.
C19_AsStated ==
    \A t \in Entities : Dumped(t) => ExactDump(calls[1].payload, result.obj, {"id"})

\* C19: the dump of an entity model is exactly its non-None fields, with
\* their validated values (a date as its ISO string), without id and, for
\* DealProduct, without deal_id.
C19_ToApiDict ==
    \A t \in Entities :
        Dumped(t) => ExactDump(calls[1].payload, result.obj,
                               IF t = "DealProduct" THEN {"id", "deal_id"} ELSE {"id"})

C19_Witness ==
    /\ Dumped("Deal") /\ args.id = I(9) /\ args.expected_close_date = Date20250115
    /\ result.obj.expected_close_date = Date(Date20250115.v)
    /\ calls[1].payload.expected_close_date = Date20250115
    /\ DOMAIN calls[1].payload = {"title", "currency", "status", "expected_close_date"}

\* the error text contains "Validation error"
SaysValidationError(msg) == Contains(msg, "Validation error: ")

\* C20: the create-activity tool called (feature enabled) with subject ""
\* ends with a failure envelope whose error contains "Validation error",
\* and create_activity is not invoked.
C20_EmptySubject ==
    (tool = "create_activity_in_pipedrive" /\ gate /\ args.subject = Empty)
    => /\ calls = <<>>
       /\ Done => (IsFailure(result) /\ SaysValidationError(result.obj.error))

CreatedOnce(a, ownerId) ==
    /\ Done => (result.kind = "json" /\ Len(calls) = 1)
    /\ calls # <<>>
         => calls = <<[method |-> "create_activity",
                       payload |-> [subject |-> a.subject, type |-> a.type, owner_id |-> ownerId,
                                    due_date |-> a.due_date]]>>
    /\ (Done /\ path = "success")
         => (~IsNone(result.obj.data) /\ result = format_tool_response(TRUE, result.obj.data, None))

\* C21: the create-activity tool called (feature enabled) with subject
\* "Call with client", type "call", owner_id_str "123", due_date
\* "2025-01-15" invokes create_activity exactly once, with owner_id 123, and
\* when that call succeeds returns success=true with the created record as
\* data and error null.
C21_CreateActivitySuccess ==
    (/\ tool = "create_activity_in_pipedrive" /\ gate
     /\ args = CallWithClient @@ [owner_id_str |-> OneTwoThree])
    => CreatedOnce(args, I(123))

\* a create-activity call with valid subject and type and the documented
\* due_time and duration formats, everything else absent
DocumentedFormats(a) ==
    /\ DOMAIN a = create_activity_parameters
    /\ a.subject = NameC /\ a.type = TypeCall
    /\ a.due_time \in {None, IsoDateTime} /\ a.duration \in {None, Seconds3600}
    /\ a.due_time # None \/ a.duration # None
    /\ \A f \in create_activity_parameters \ {"subject", "type", "due_time", "duration"} : IsNone(a[f])

\* C22: a create-activity call with valid subject and type, due_time as an
\* ISO datetime with timezone and/or duration as a number of seconds is not
\* ended locally and reaches create_activity with those values.
C22_DocumentedFormatsAccepted ==
    (tool = "create_activity_in_pipedrive" /\ gate /\ DocumentedFormats(args) /\ pc # "idle")
    => /\ Len(calls) = 1 /\ calls[1].method = "create_activity"
       /\ Field(calls[1].payload, "due_time") = args.due_time
       /\ Field(calls[1].payload, "duration") = args.duration

\* the messages with which the handler refuses a term for its length
TermLengthRefusal(r) ==
    /\ IsFailure(r)
    /\ \/ Contains(r.obj.error, "Search term cannot be empty")
       \/ Contains(r.obj.error, "Search term must be at least 1 character for exact matching")
       \/ Contains(r.obj.error, "Search term must be at least 2 characters for '")

\* a finished field search obeys the minimum term length `minimum` gives for
\* its match type: shorter terms are refused with no client call, and no
\* other term is refused for its length
TermLengthRule(shortBelow) ==
    (tool = "search_item_field_in_pipedrive" /\ Done) =>
        IF term_length(args.term) < shortBelow
        THEN calls = <<>> /\ IsFailure(result)
        ELSE ~TermLengthRefusal(result)

\* C23: the field search requires a term of at least 2 characters for an
\* exact match and of at least 1 character otherwise; a shorter term is
\* refused before any remote call, and a term meeting the minimum is never
\* refused for its length
C23_DocumentedTermLength ==
    TermLengthRule(search_field_min_length_documented(args.match))
\* the get, update and delete tools that take the id of the entity they act on
IdTools ==
    {"get_deal_from_pipedrive", "update_deal_in_pipedrive", "update_person_in_pipedrive",
     "update_activity_in_pipedrive", "update_lead_in_pipedrive", "delete_lead_from_pipedrive"}
LeadTools == {"update_lead_in_pipedrive", "delete_lead_from_pipedrive"}
\* the id argument of a call, and the id the client method is given
EntityIdArgument(t, a) == IF t \in LeadTools THEN a.lead_id ELSE a.id_str
EntityIdPassed(t, payload) ==
    CASE t \in LeadTools -> payload.lead_id
      [] t \in {"get_deal_from_pipedrive", "update_deal_in_pipedrive"} -> payload.deal_id
      [] t = "update_person_in_pipedrive" -> payload.person_id
      [] t = "update_activity_in_pipedrive" -> payload.activity_id
ValidEntityId(t, id) ==
    IF t \in LeadTools THEN id.t = "str" /\ IsLowerUuid(id.v) ELSE PositiveInt(id)

\* C25: a get, update or delete tool given an empty or whitespace-only id
\* returns a failure envelope without calling the client, and every client
\* call such a tool makes carries a positive integer id (a UUID for a lead)
C25_NoCallWithNullId ==
    (tool \in IdTools /\ gate)
    => /\ BlankOrNone(EntityIdArgument(tool, args))
            => (calls = <<>> /\ (Done => IsFailure(result)))
       /\ \A i \in 1..Len(calls) : ValidEntityId(tool, EntityIdPassed(tool, calls[i].payload))

\* the fields a partial update carries: the optional arguments that were given
PartialUpdate(a) ==
    /\ IsNone(a.subject) /\ IsNone(a.type)
    /\ PositiveIdInput(a.id_str)
    /\ DOMAIN update_fields(a) # {}
    /\ FailingSteps(update_activity_steps(a)) = {}
    /\ \A f \in DOMAIN update_fields(a) :
           ActivityFieldValidator(f, update_fields(a)[f]).ok

\* C26: an update of an activity with a valid id and a non-empty set of
\* individually valid optional fields, subject and type not among them, is
\* not refused locally and leads to exactly one update_activity call that
\* carries exactly those fields
C26_PartialUpdate ==
    (tool = "update_activity_in_pipedrive" /\ gate /\ PartialUpdate(args))
    => /\ Len(calls) = 1
       /\ calls[1].method = "update_activity"
       /\ calls[1].payload = [activity_id |-> I(PyInt(args.id_str.v).v)] @@ update_fields(args)
       /\ path \notin {"conversion", "precondition", "validation"}
\* a response that reports failure: an error status with a JSON object as
\* body, or a 2xx status with a JSON object whose success is false
FailedResponse(x) ==
    /\ x.k = "response" /\ x.body.t = "dict" /\ DOMAIN x.body.v # {}
    /\ is_error_status(x.status) \/ Get(x.body, "success", None) = Bool(FALSE)
CarriesDetails(e, x) ==
    /\ e.k = "api_error"
    /\ e.status_code = I(x.status)
    /\ e.error_info = Get(x.body, "error_info", Empty)
    /\ e.response_data = x.body

\* C27: for an HTTP error status, and equally for a 2xx response whose body
\* has success=false, _request raises PipedriveAPIError with the status_code,
\* error_info and response_data of that response
C27_ErrorCarriesDetails ==
    (tool = "_request" /\ pc = "returned" /\ FailedResponse(args))
    => CarriesDetails(result.obj, args)
ReturnedValue(v) == result = [kind |-> "return", obj |-> Bool(v)]
\* the phases of a run in which the validator phase returned (True, True)
ValidatorPasses ==
    {j \in 1..Len(calls) :
        calls[j].method = "validator" /\ calls[j].payload.returned = <<TRUE, TRUE>>}

\* C24: in the review loop validation_passed becomes true only in a step in
\* which the Validator process exited normally with "VALIDATION: PASSED" in
\* its output; the PR phase is entered and run() returns True only while
\* validation_passed is true
C24_PassNeedsValidatorOutput ==
    [][tool = "AgenticReviewLoop"
       => /\ (validation_passed' = Bool(TRUE) /\ validation_passed # Bool(TRUE))
               => /\ agent'.role = "validator" /\ agent'.exit = "exit0"
                  /\ Contains(S(agent'.stdout), MarkerPassed)
          /\ (pc' = "pr" \/ (pc' = "returned" /\ ReturnedValue(TRUE)'))
               => validation_passed' = Bool(TRUE)]_vars

\* C28: AgenticLoop.run() ends by returning a boolean, True exactly when the
\* Validator reported a pass, whatever the phases did and whatever
\* max_iterations is; it never ends with an exception
C28_RunReturnsBoolean ==
    (tool = "AgenticLoop" /\ pc = "returned")
    => /\ result.kind = "return"
       /\ ReturnedValue(ValidatorPasses # {})

\* the phases of a run in which the PR Manager agent was run
PrRuns == {j \in 1..Len(calls) : calls[j].method = "pr_manager" /\ calls[j].payload.ran}

PhaseOrder ==
    \A j \in 1..Len(calls) :
        LET c == calls[j]
            prev == calls[j - 1]
        IN /\ c.payload.iteration \in 1..args.max_iterations
           /\ c.method = "reviewer" =>
                \/ j = 1 /\ c.payload.iteration = 1
                \/ /\ j > 1 /\ prev.method = "validator" /\ prev.payload.returned = <<TRUE, FALSE>>
                   /\ c.payload.iteration = prev.payload.iteration + 1
           /\ c.method = "developer" =>
                /\ j > 1 /\ prev.method = "reviewer" /\ prev.payload.returned = <<TRUE>>
                /\ c.payload.iteration = prev.payload.iteration
           /\ c.method = "validator" =>
                /\ j > 1 /\ prev.method = "developer" /\ prev.payload.returned = <<TRUE>>
                /\ c.payload.iteration = prev.payload.iteration
\* why a run is over: a phase failed, validation passed, or the iteration
\* count reached max_iterations
StopReason ==
    pc = "returned"
    => \/ iteration = args.max_iterations
       \/ /\ calls # <<>>
          /\ \/ calls[Len(calls)].payload.returned[1] = FALSE
             \/ calls[Len(calls)].method = "pr_manager"
             \/ Len(calls) \in ValidatorPasses

====
